---------------------------- MODULE Spec2Model ----------------------------
(***************************************************************************)
(* Model of the multi-label emotion classification engine of the           *)
(* repository: the text normalizer, the threshold optimizer, the           *)
(* persistence of a training run's artifact, the two inference engines     *)
(* (backend EmotionPredictor, AI_Work EmotionClassifier) and the lazily    *)
(* loaded backend singleton.                                               *)
(*                                                                         *)
(* Numbers.  A probability or threshold is an integer number of units of   *)
(* 1/ONE, ONE = 9900000 = lcm(100000, 9900): a model output is a multiple  *)
(* of 1e-5 (99 units), a point of np.linspace(0.01, 0.99, 100) is          *)
(* 0.01 + k*0.98/99 = (99 + 98k)/9900 (1000*(99+98k) units), and a         *)
(* confidence rounded to 4 decimals is a multiple of 990 units.  All       *)
(* comparisons are therefore exact.                                        *)
(*                                                                         *)
(* Text.  A string is a sequence of one-character strings.                 *)
(***************************************************************************)
EXTENDS Integers, Sequences, FiniteSets, TLC

\* ------------------------------------------------------------------ bounds

\* Largest number of fragments concatenated into one raw input text.
MaxFrags == 3
\* Largest number of fragments in a text handed to predict.
MaxPredictFrags == 1
\* Largest number of emotion names / thresholds in an installed bundle, and
\* of labels of a training run.
MaxLabels == 2
\* Largest number of examples in a validation split.
MaxVal == 2
\* Number of training runs that may write the artifact directory.
MaxRuns == 2
\* Number of EmotionClassifier / EmotionPredictor objects constructed from
\* the artifact directory.
MaxLoads == 2
\* Largest seed of the weights a training run may end with.
MaxTrainSeed == 0
\* Largest number of examples in the validation split of a run that is
\* interleaved with engine constructions.
MaxTrainVal == 1
\* Number of consecutive predict calls that are told apart.
MaxPredicts == 2
\* Largest number of entries in a split file of the DepressionEmo dataset.
MaxEntries == 2
\* Largest number of rows of the dataframe a training run starts from.
MaxRows == 4
\* The validation macro-F1 of an epoch is one of 0/MaxF1, 1/MaxF1, ..., 1.
MaxF1 == 4

\* the most rows of a training split of one label column
MaxTrainRows == 12

\* the most examples of a dataset that is only split
MaxSplitRows == 8

\* the request threads of a process
MaxThreads == 2

\* --------------------------------------------------------------- numbers

ONE == 99 * 100000
HALF == ONE \div 2

\* n*1e-5 as units
P5(n) == 99 * n

Min(a, b) == IF a <= b THEN a ELSE b

\* ------------------------------------------------------------------ text

Str_http == <<"h", "t", "t", "p">>
Str_www == <<"w", "w", "w">>
Str_r == <<"/", "r", "/">>
Str_u == <<"/", "u", "/">>
Str_deleted == <<"[", "d", "e", "l", "e", "t", "e", "d", "]">>
Str_removed == <<"[", "r", "e", "m", "o", "v", "e", "d", "]">>
Str_empty == <<"[", "e", "m", "p", "t", "y", "]">>
Str_None == <<"N", "o", "n", "e">>

\* \s of Python's re on str
IsSpace(c) == c \in {" ", "\n", "\t"}

LowerLetters ==
  {"a", "b", "d", "e", "h", "i", "l", "m", "n", "o", "p", "r", "s", "t", "u", "v", "w", "x", "y"}

UpperLetters == {"D", "E", "N", "R"}

\* \w of Python's re on str
IsWord(c) == c \in LowerLetters \cup UpperLetters \cup {"0", "1", "_"}

\* str.lower on one character (re.IGNORECASE compares case-folded)
Lower(c) ==
  CASE c = "D" -> "d"
    [] c = "E" -> "e"
    [] c = "N" -> "n"
    [] c = "R" -> "r"
    [] OTHER -> c

\* the suffix of s that starts at position i (1-based)
Drop(s, i) == IF i > Len(s) THEN <<>> ELSE SubSeq(s, i, Len(s))

\* does pat occur in s at position i
At(s, i, pat) ==
  /\ i + Len(pat) - 1 <= Len(s)
  /\ \A k \in 1..Len(pat) : s[i + k - 1] = pat[k]

\* the same, ignoring case
AtNoCase(s, i, pat) ==
  /\ i + Len(pat) - 1 <= Len(s)
  /\ \A k \in 1..Len(pat) : Lower(s[i + k - 1]) = pat[k]

\* length of the longest run of non-space characters of s from position i
RECURSIVE NonSpaceRun(_, _)
NonSpaceRun(s, i) ==
  IF i > Len(s) \/ IsSpace(s[i]) THEN 0 ELSE 1 + NonSpaceRun(s, i + 1)

\* length of the longest run of word characters of s from position i
RECURSIVE WordRun(_, _)
WordRun(s, i) ==
  IF i > Len(s) \/ ~IsWord(s[i]) THEN 0 ELSE 1 + WordRun(s, i + 1)

\* length of the longest run of space characters of s from position i
RECURSIVE SpaceRun(_, _)
SpaceRun(s, i) ==
  IF i > Len(s) \/ ~IsSpace(s[i]) THEN 0 ELSE 1 + SpaceRun(s, i + 1)

\* length of the match of  http\S+|www\S+|https\S+  at position i, 0 if none
UrlMatch(s, i) ==
  IF At(s, i, Str_http) /\ NonSpaceRun(s, i + 4) >= 1
    THEN 4 + NonSpaceRun(s, i + 4)
    ELSE IF At(s, i, Str_www) /\ NonSpaceRun(s, i + 3) >= 1
      THEN 3 + NonSpaceRun(s, i + 3)
      ELSE 0

\* length of the match of  /r/\w+|/u/\w+  at position i, 0 if none
MentionMatch(s, i) ==
  IF (At(s, i, Str_r) \/ At(s, i, Str_u)) /\ WordRun(s, i + 3) >= 1
    THEN 3 + WordRun(s, i + 3)
    ELSE 0

\* length of the match of  \[deleted\]|\[removed\]  (IGNORECASE) at i, 0 if none
PlaceholderMatch(s, i) ==
  IF AtNoCase(s, i, Str_deleted) \/ AtNoCase(s, i, Str_removed) THEN 9 ELSE 0

\* re.sub(url pattern, '', s): leftmost non-overlapping matches removed
RECURSIVE SubUrl(_, _)
SubUrl(s, i) ==
  IF i > Len(s) THEN <<>>
  ELSE IF UrlMatch(s, i) > 0 THEN SubUrl(s, i + UrlMatch(s, i))
  ELSE <<s[i]>> \o SubUrl(s, i + 1)

RECURSIVE SubMention(_, _)
SubMention(s, i) ==
  IF i > Len(s) THEN <<>>
  ELSE IF MentionMatch(s, i) > 0 THEN SubMention(s, i + MentionMatch(s, i))
  ELSE <<s[i]>> \o SubMention(s, i + 1)

RECURSIVE SubPlaceholder(_, _)
SubPlaceholder(s, i) ==
  IF i > Len(s) THEN <<>>
  ELSE IF PlaceholderMatch(s, i) > 0 THEN SubPlaceholder(s, i + PlaceholderMatch(s, i))
  ELSE <<s[i]>> \o SubPlaceholder(s, i + 1)

\* re.sub(r'\s+', ' ', s)
RECURSIVE SubSpaces(_, _)
SubSpaces(s, i) ==
  IF i > Len(s) THEN <<>>
  ELSE IF SpaceRun(s, i) > 0 THEN <<" ">> \o SubSpaces(s, i + SpaceRun(s, i))
  ELSE <<s[i]>> \o SubSpaces(s, i + 1)

\* s.lstrip()
LStrip(s) == Drop(s, SpaceRun(s, 1) + 1)

\* s.rstrip()
RECURSIVE RStrip(_)
RStrip(s) ==
  IF s = <<>> \/ ~IsSpace(s[Len(s)]) THEN s ELSE RStrip(SubSeq(s, 1, Len(s) - 1))

Strip(s) == RStrip(LStrip(s))

\* A value handed in as a text: a str, or a non-text payload (None).
StrVal(chars) == [kind |-> "str", chars |-> chars]
NoneVal == [kind |-> "none", chars |-> <<>>]

\* str(value)
PyStr(v) == IF v.kind = "str" THEN v.chars ELSE Str_None

\* preprocess_text of train_emotion_classifier.py and of
\* synthesize_training_data.py (the two bodies are the same)
preprocess_text(v) ==
  LET t1 == SubUrl(PyStr(v), 1)
      t2 == SubMention(t1, 1)
      t3 == SubPlaceholder(t2, 1)
      t4 == SubSpaces(t3, 1)
      t5 == Strip(t4)
  IN IF Len(t5) < 3 THEN Str_empty ELSE t5

\* The fragments raw input texts are made of.
Fragments ==
  { <<"h", "i">>,
    <<" ">>,
    <<" ", "\n">>,
    <<"s", "a", "d">>,
    Str_http \o <<":", "/", "/", "x">>,
    Str_www \o <<".", "a">>,
    Str_r \o <<"a", "b">>,
    <<"[", "D", "e", "l", "e", "t", "e", "d", "]">> }

RECURSIVE Concats(_)
Concats(n) ==
  IF n = 0 THEN {<<>>}
  ELSE Concats(n - 1) \cup {a \o f : a \in Concats(n - 1), f \in Fragments}

\* every value a caller may hand in as text
RawTexts == {StrVal(c) : c \in Concats(MaxFrags)} \cup {NoneVal}

\* -------------------------------------------------------------- the model

\* The emotion vocabulary, in index order.
Vocabulary == <<"sadness", "anger", "fear">>

\* sigmoid outputs of the network: 0.3, 0.5, 0.59996, 0.6
ProbVals == <<P5(30000), P5(50000), P5(59996), P5(60000)>>

NumProbVals == Len(ProbVals)

RECURSIVE Pow(_, _)
Pow(b, e) == IF e = 0 THEN 1 ELSE b * Pow(b, e - 1)

\* Model weights.  The network is opaque: a deterministic function of its
\* weights and of the string it is given.  seed enumerates the functions:
\* for a fixed input, the seeds 0..NumProbVals^num_labels-1 give every
\* vector of ProbVals.
NoWeights == [present |-> FALSE, run |-> 0, num_labels |-> 0, seed |-> 0]

WeightsOf(r, n, sd) == [present |-> TRUE, run |-> r, num_labels |-> n, seed |-> sd]

\* torch.sigmoid(model(**tokenizer(tok)).logits)[0]
Forward(w, tok) ==
  [i \in 1..w.num_labels |->
     ProbVals[(((w.seed \div Pow(NumProbVals, i - 1)) + Len(tok)) % NumProbVals) + 1]]

\* round(float(p), 4): to the nearest multiple of 1e-4, a tie to the even one
Round4(u) ==
  LET q == u \div 990
      r == u % 990
  IN IF 2 * r < 990 THEN 990 * q
     ELSE IF 2 * r > 990 THEN 990 * (q + 1)
     ELSE IF q % 2 = 0 THEN 990 * q ELSE 990 * (q + 1)

\* ------------------------------------------------------------ file system

\* A JSON object is the sequence of its (key, value) pairs; every value is a
\* list (a number n is the list <<n>>).
Pair(k, v) == [key |-> k, val |-> v]

HasKey(obj, k) == \E i \in 1..Len(obj) : obj[i].key = k

Get(obj, k) == obj[CHOOSE i \in 1..Len(obj) : obj[i].key = k].val

\* A file: its content, and the training run that wrote it (0: none did).
NoFile == [present |-> FALSE, json |-> <<>>, run |-> 0]

FileOf(obj) == [present |-> TRUE, json |-> obj, run |-> 0]

NoTokenizer == [present |-> FALSE, run |-> 0]

TokenizerOf(r) == [present |-> TRUE, run |-> r]

FileNames == {"emotion_info.json", "emotion_config.json", "label_encoder.pkl"}

\* MODELS_DIR / "emotion_classifier" (written by train_emotion_classifier,
\* read by EmotionClassifier), MODELS_DIR / "emotion_model_text_only" and
\* MODELS_DIR / "sentiment_model_final" (read by the backend).
Dirs == {"emotion_classifier", "emotion_model_text_only", "sentiment_model_final"}

EMOTION_MODEL_PATH == "emotion_model_text_only"

SENTIMENT_MODEL_PATH == "sentiment_model_final"

\* MODELS_DIR / "label_encoder.pkl" is kept as a file of the sentiment
\* model's directory entry.
LABEL_ENCODER_PATH == "label_encoder.pkl"

NoDir ==
  [exists |-> FALSE, weights |-> NoWeights, tokenizer |-> NoTokenizer,
   files |-> [f \in FileNames |-> NoFile]]

EmptyDir == [NoDir EXCEPT !.exists = TRUE]

\* --------------------------------------------------- backend: the engine

NoEngine ==
  [loaded |-> FALSE, id |-> 0, emotions |-> <<>>, thresholds |-> <<>>,
   weights |-> NoWeights, tokenizer |-> NoTokenizer]

\* EmotionPredictor.__init__(model_path), d the directory at model_path:
\* the exception raised ("none" if none) and the object constructed.
EmotionPredictor_init(d, newId) ==
  LET cfg == d.files["emotion_config.json"]
  IN IF ~d.exists THEN [err |-> "FileNotFoundError", engine |-> NoEngine]
     ELSE IF ~cfg.present THEN [err |-> "FileNotFoundError", engine |-> NoEngine]
     ELSE IF ~HasKey(cfg.json, "emotions") \/ ~HasKey(cfg.json, "thresholds")
       THEN [err |-> "KeyError", engine |-> NoEngine]
     ELSE IF ~d.tokenizer.present \/ ~d.weights.present
       THEN [err |-> "OSError", engine |-> NoEngine]
     ELSE [err |-> "none",
           engine |-> [loaded |-> TRUE, id |-> newId,
                       emotions |-> Get(cfg.json, "emotions"),
                       thresholds |-> Get(cfg.json, "thresholds"),
                       weights |-> d.weights,
                       tokenizer |-> d.tokenizer]]

Entry(name, conf) == [emotion |-> name, confidence |-> conf]

\* sorted(results, key=lambda x: x['confidence'], reverse=True): stable
RECURSIVE InsertDesc(_, _)
InsertDesc(sorted, e) ==
  IF sorted = <<>> THEN <<e>>
  ELSE IF sorted[1].confidence >= e.confidence
    THEN <<sorted[1]>> \o InsertDesc(Tail(sorted), e)
    ELSE <<e>> \o sorted

\* SortedDesc without reverse=True
RECURSIVE InsertAsc(_, _)
InsertAsc(sorted, e) ==
  IF sorted = <<>> THEN <<e>>
  ELSE IF sorted[1].confidence <= e.confidence
    THEN <<sorted[1]>> \o InsertAsc(Tail(sorted), e)
    ELSE <<e>> \o sorted

RECURSIVE SortedDesc_ascending(_)
SortedDesc_ascending(results) ==
  IF results = <<>> THEN <<>>
  ELSE InsertAsc(SortedDesc_ascending(SubSeq(results, 1, Len(results) - 1)),
                 results[Len(results)])

RECURSIVE SortedDesc(_)
SortedDesc(results) ==
  IF results = <<>> THEN <<>>
  ELSE InsertDesc(SortedDesc(SubSeq(results, 1, Len(results) - 1)),
                  results[Len(results)])

\* Results with the comparison  probs[i] > thresholds[i]
RECURSIVE Results_strict(_, _, _, _)
Results_strict(e, probs, return_all, i) ==
  IF i > Len(e.emotions) THEN [err |-> "none", list |-> <<>>]
  ELSE IF ~return_all /\ (i > Len(probs) \/ i > Len(e.thresholds))
    THEN [err |-> "IndexError", list |-> <<>>]
  ELSE IF return_all \/ probs[i] > e.thresholds[i]
    THEN IF i > Len(probs) THEN [err |-> "IndexError", list |-> <<>>]
         ELSE LET rest == Results_strict(e, probs, return_all, i + 1)
              IN IF rest.err # "none" THEN rest
                 ELSE [err |-> "none",
                       list |-> <<Entry(e.emotions[i], Round4(probs[i]))>> \o rest.list]
  ELSE Results_strict(e, probs, return_all, i + 1)

\* The loop of EmotionPredictor.predict from vocabulary index i on: the
\* entries appended, or IndexError as soon as probs[i] or thresholds[i] is
\* read past the end.
RECURSIVE Results(_, _, _, _)
Results(e, probs, return_all, i) ==
  IF i > Len(e.emotions) THEN [err |-> "none", list |-> <<>>]
  ELSE IF ~return_all /\ (i > Len(probs) \/ i > Len(e.thresholds))
    THEN [err |-> "IndexError", list |-> <<>>]
  ELSE IF return_all \/ probs[i] >= e.thresholds[i]
    THEN IF i > Len(probs) THEN [err |-> "IndexError", list |-> <<>>]
         ELSE LET rest == Results(e, probs, return_all, i + 1)
              IN IF rest.err # "none" THEN rest
                 ELSE [err |-> "none",
                       list |-> <<Entry(e.emotions[i], Round4(probs[i]))>> \o rest.list]
  ELSE Results(e, probs, return_all, i + 1)

\* the string EmotionPredictor.predict hands to the tokenizer
EmotionPredictor_tokIn(text) == PyStr(text)

\* EmotionPredictor.predict(text, return_all)
EmotionPredictor_predict(e, text, return_all) ==
  LET probs == Forward(e.weights, EmotionPredictor_tokIn(text))
      res == Results(e, probs, return_all, 1)
  IN [err |-> res.err, list |-> SortedDesc(res.list)]

\* the string MultiLabelEmotionDataset.__getitem__ hands to the tokenizer
MultiLabelEmotionDataset_tokIn(text) == preprocess_text(StrVal(PyStr(text)))

\* ------------------------------------------------- threshold optimizer

\* np.linspace(0.01, 0.99, 100)
GridSize == 100

GridPoint(k) == 1000 * (99 + 98 * k)

\* best_threshold = 0.5
DefaultThreshold == HALF

\* column j of a matrix given as a sequence of rows
Column(m, j) == [r \in 1..Len(m) |-> m[r][j]]

\* (probs[:, i] >= threshold).astype(int)
Preds(p, threshold) == [r \in 1..Len(p) |-> IF p[r] >= threshold THEN 1 ELSE 0]

\* f1_score(y, preds, zero_division=0) as the fraction <<numerator, denominator>>
f1_score(y, preds) ==
  LET tp == Cardinality({r \in 1..Len(y) : y[r] = 1 /\ preds[r] = 1})
      fp == Cardinality({r \in 1..Len(y) : y[r] = 0 /\ preds[r] = 1})
      fn == Cardinality({r \in 1..Len(y) : y[r] = 1 /\ preds[r] = 0})
  IN IF 2 * tp + fp + fn = 0 THEN <<0, 1>> ELSE <<2 * tp, 2 * tp + fp + fn>>

\* a > b for fractions with positive denominators
FracGreater(a, b) == a[1] * b[2] > b[1] * a[2]

FracGeq(a, b) == a[1] * b[2] >= b[1] * a[2]

\* the iteration that keeps the later of two thresholds of equal F1
ScanStep_last(y, p, k, best) ==
  LET f1 == f1_score(y, Preds(p, GridPoint(k)))
  IN IF FracGeq(f1, best.f1)
       THEN [f1 |-> f1, threshold |-> GridPoint(k)]
       ELSE best

\* one iteration of the inner loop of find_optimal_thresholds: the best F1
\* and threshold after grid index k, from those before it
ScanStep(y, p, k, best) ==
  LET f1 == f1_score(y, Preds(p, GridPoint(k)))
  IN IF FracGreater(f1, best.f1)
       THEN [f1 |-> f1, threshold |-> GridPoint(k)]
       ELSE best

\* the iterations lo..hi of the loop, in order (the range is halved and the
\* left half is evaluated first, by the test on it, to keep the evaluation
\* shallow)
RECURSIVE ScanGrid(_, _, _, _, _)
ScanGrid(y, p, lo, hi, best) ==
  IF lo > hi THEN best
  ELSE IF lo = hi THEN ScanStep(y, p, lo, best)
  ELSE LET mid == (lo + hi) \div 2
           left == ScanGrid(y, p, lo, mid, best)
       IN IF left.threshold >= 0 THEN ScanGrid(y, p, mid + 1, hi, left) ELSE left

\* the threshold kept for one label
BestThreshold(y, p) ==
  ScanGrid(y, p, 0, GridSize - 1,
           [f1 |-> <<0, 1>>, threshold |-> DefaultThreshold]).threshold

\* sigmoid outputs of the trained model on the validation split: 0.497,
\* 0.502, 0.9
ValProbs == {P5(49700), P5(50200), P5(90000)}

RECURSIVE SeqsOfLen(_, _)
SeqsOfLen(S, n) ==
  IF n = 0 THEN {<<>>} ELSE {Append(q, x) : q \in SeqsOfLen(S, n - 1), x \in S}

\* BestThreshold for every column of a validation split, worked out once
\* (the comparison makes the table of it)
BestThresholdOf ==
  LET table == [c \in UNION {SeqsOfLen({0, 1}, m) \X SeqsOfLen(ValProbs, m) :
                               m \in 1..MaxVal} |->
                  BestThreshold(c[1], c[2])]
  IN IF table = table THEN table ELSE table

\* find_optimal_thresholds with the loop stopping one label short
find_optimal_thresholds_short(labels, probs, emotion_names) ==
  [err |-> "none",
   thresholds |-> [i \in 1..(Len(emotion_names) - 1) |->
                     BestThresholdOf[<<Column(labels, i), Column(probs, i)>>]]]

\* find_optimal_thresholds(labels, probs, emotion_names): the exception
\* raised ("none" if none) and the vector returned.  labels[:, i] and
\* probs[:, i] raise IndexError for a name past the last column.
find_optimal_thresholds(labels, probs, emotion_names) ==
  IF Len(emotion_names) > Len(labels[1]) \/ Len(emotion_names) > Len(probs[1])
    THEN [err |-> "IndexError", thresholds |-> <<>>]
    ELSE [err |-> "none",
          thresholds |-> [i \in 1..Len(emotion_names) |->
                            BestThresholdOf[<<Column(labels, i), Column(probs, i)>>]]]

\* ------------------------------------------------------------------ state

VARIABLES
  fs,                  \* the model directories: Dirs -> directory
  _emotion_predictor,  \* the backend's module-level singleton (NoEngine: None)
  _sentiment_predictor, \* the same for the sentiment model
  constructions,       \* predictor objects constructed so far, per class
  load_failed,         \* the getters of which a call failed to construct
  call,                \* the last completed call: its arguments and its result
  run,                 \* the training run in progress or last finished
  ldr,                 \* an EmotionClassifier.__init__ in progress
  classifier,          \* the last EmotionClassifier constructed
  loads                \* EmotionClassifier constructions started so far

vars ==
  <<fs, _emotion_predictor, _sentiment_predictor, constructions, load_failed,
    call, run, ldr, classifier, loads>>

NoCall ==
  [op |-> "none", text |-> NoneVal, return_all |-> FALSE, tokIn |-> <<>>,
   err |-> "none", list |-> <<>>, attempted |-> FALSE, before |-> 0, ret |-> 0,
   labels |-> <<>>, probs |-> <<>>, names |-> <<>>, thresholds |-> <<>>,
   path |-> "", engine |-> NoEngine, complete |-> FALSE, served |-> 0]

NoRun ==
  [id |-> 0, pc |-> "idle", emotion_names |-> <<>>, num_labels |-> 0,
   optimal_thresholds |-> <<>>, weights |-> NoWeights]

NoLoader ==
  [pc |-> "idle", path |-> "", tokenizer |-> NoTokenizer, weights |-> NoWeights,
   startId |-> 0, startPc |-> "idle"]

\* An EmotionClassifier.  Beside its fields: err, the exception its
\* construction ended with; from_file, whether emotion_info.json was read;
\* info_run, the run that wrote the file read; complete, whether the whole
\* construction read a finished artifact that no run was writing; written,
\* the names and thresholds the last run had written by then.
NoClassifier ==
  [loaded |-> FALSE, err |-> "none", emotion_names |-> <<>>,
   optimal_thresholds |-> <<>>, weights |-> NoWeights, tokenizer |-> NoTokenizer,
   from_file |-> FALSE, info_run |-> 0, complete |-> FALSE,
   written |-> [names |-> <<>>, thresholds |-> <<>>]]

\* ---------------------------------------------------- backend: deployment

Prefix(seq, n) == SubSeq(seq, 1, n)

\* the vocabularies of at most MaxLabels names
NameLists == {Prefix(Vocabulary, n) : n \in 1..MaxLabels}

\* thresholds found in a deployed emotion_config.json: 0.4 and 0.6
ThreshVals == {P5(40000), P5(60000)}

RECURSIVE SeqsUpTo(_, _)
SeqsUpTo(S, n) ==
  IF n = 0 THEN {<<>>}
  ELSE SeqsUpTo(S, n - 1) \cup
       {Append(q, x) : q \in {t \in SeqsUpTo(S, n - 1) : Len(t) = n - 1}, x \in S}

ThreshLists == SeqsUpTo(ThreshVals, MaxLabels)

\* the emotion_config.json files that may be deployed: the lists may differ
\* in length, and a key may be missing
Configs ==
  {FileOf(<<Pair("emotions", e), Pair("thresholds", t)>>) :
     e \in NameLists, t \in ThreshLists}
  \cup {FileOf(<<Pair("emotions", e)>>) : e \in NameLists}

AllWeights ==
  {WeightsOf(1, n, sd) : n \in 1..MaxLabels, sd \in 0..(Pow(NumProbVals, MaxLabels) - 1)}

\* the weights of n labels, one for every function on a fixed input
WeightsFor == {w \in AllWeights : w.seed < Pow(NumProbVals, w.num_labels)}

\* what may be found at EMOTION_MODEL_PATH: nothing, or a directory with or
\* without the model files and with or without a configuration file
BackendDirs ==
  {NoDir}
  \cup {[exists |-> TRUE, weights |-> w, tokenizer |-> TokenizerOf(1),
         files |-> [f \in FileNames |->
                      IF f = "emotion_config.json" THEN c ELSE NoFile]] :
          w \in WeightsFor, c \in Configs \cup {NoFile}}
  \cup {[exists |-> TRUE, weights |-> NoWeights, tokenizer |-> NoTokenizer,
         files |-> [f \in FileNames |->
                      IF f = "emotion_config.json" THEN c ELSE NoFile]] :
          c \in Configs \cup {NoFile}}

\* The model directory is put in place or replaced from outside the
\* process.  Once the singleton is set the directory is never read again,
\* so later changes of it are left out.
Deploy(d) ==
  /\ ~_emotion_predictor.loaded
  /\ fs[EMOTION_MODEL_PATH] # d
  /\ fs' = [fs EXCEPT ![EMOTION_MODEL_PATH] = d]
  /\ UNCHANGED <<_emotion_predictor, _sentiment_predictor, constructions, load_failed,
                 call, run, ldr, classifier, loads>>

\* the same for the sentiment model and its label encoder
DeploySentiment(d) ==
  /\ ~_sentiment_predictor.loaded
  /\ fs[SENTIMENT_MODEL_PATH] # d
  /\ fs' = [fs EXCEPT ![SENTIMENT_MODEL_PATH] = d]
  /\ UNCHANGED <<_emotion_predictor, _sentiment_predictor, constructions, load_failed,
                 call, run, ldr, classifier, loads>>

\* get_emotion_predictor without the  is None  test: every call constructs
get_emotion_predictor_always ==
  LET r == EmotionPredictor_init(fs[EMOTION_MODEL_PATH], constructions.emotion + 1)
  IN /\ _emotion_predictor' = r.engine
     /\ constructions' =
          IF r.err = "none"
            THEN [constructions EXCEPT !.emotion = @ + 1]
            ELSE constructions
     /\ load_failed' =
          IF r.err = "none" THEN load_failed ELSE load_failed \cup {"emotion"}
     /\ call' = [NoCall EXCEPT !.op = "get_emotion_predictor",
                               !.attempted = TRUE,
                               !.err = r.err,
                               !.ret = r.engine.id]
     /\ UNCHANGED <<fs, _sentiment_predictor, run, ldr, classifier, loads>>

\* get_emotion_predictor(): a set singleton is returned as it is; else the
\* constructor runs, and any exception leaves the singleton None.
get_emotion_predictor ==
  LET r == EmotionPredictor_init(fs[EMOTION_MODEL_PATH], constructions.emotion + 1)
  IN IF _emotion_predictor.loaded
       THEN /\ call' = [NoCall EXCEPT !.op = "get_emotion_predictor",
                                      !.before = _emotion_predictor.id,
                                      !.ret = _emotion_predictor.id]
            /\ UNCHANGED <<fs, _emotion_predictor, _sentiment_predictor, constructions,
                           load_failed, run, ldr, classifier, loads>>
       ELSE /\ _emotion_predictor' = r.engine
            /\ constructions' =
                 IF r.err = "none"
                   THEN [constructions EXCEPT !.emotion = @ + 1]
                   ELSE constructions
            /\ load_failed' =
                 IF r.err = "none" THEN load_failed ELSE load_failed \cup {"emotion"}
            /\ call' = [NoCall EXCEPT !.op = "get_emotion_predictor",
                                      !.attempted = TRUE,
                                      !.err = r.err,
                                      !.ret = r.engine.id]
            /\ UNCHANGED <<fs, _sentiment_predictor, run, ldr, classifier, loads>>

\* SentimentPredictor.__init__(), d the directory at SENTIMENT_MODEL_PATH
SentimentPredictor_init(d, newId) ==
  IF ~d.exists THEN [err |-> "FileNotFoundError", engine |-> NoEngine]
  ELSE IF ~d.tokenizer.present \/ ~d.weights.present
    THEN [err |-> "OSError", engine |-> NoEngine]
  ELSE IF ~d.files[LABEL_ENCODER_PATH].present
    THEN [err |-> "FileNotFoundError", engine |-> NoEngine]
  ELSE [err |-> "none",
        engine |-> [NoEngine EXCEPT !.loaded = TRUE, !.id = newId,
                                    !.weights = d.weights,
                                    !.tokenizer = d.tokenizer]]

\* get_sentiment_predictor()
get_sentiment_predictor ==
  LET r == SentimentPredictor_init(fs[SENTIMENT_MODEL_PATH], constructions.sentiment + 1)
  IN IF _sentiment_predictor.loaded
       THEN /\ call' = [NoCall EXCEPT !.op = "get_sentiment_predictor",
                                      !.before = _sentiment_predictor.id,
                                      !.ret = _sentiment_predictor.id]
            /\ UNCHANGED <<fs, _emotion_predictor, _sentiment_predictor, constructions,
                           load_failed, run, ldr, classifier, loads>>
       ELSE /\ _sentiment_predictor' = r.engine
            /\ constructions' =
                 IF r.err = "none"
                   THEN [constructions EXCEPT !.sentiment = @ + 1]
                   ELSE constructions
            /\ load_failed' =
                 IF r.err = "none" THEN load_failed ELSE load_failed \cup {"sentiment"}
            /\ call' = [NoCall EXCEPT !.op = "get_sentiment_predictor",
                                      !.attempted = TRUE,
                                      !.err = r.err,
                                      !.ret = r.engine.id]
            /\ UNCHANGED <<fs, _emotion_predictor, run, ldr, classifier, loads>>

\* the texts handed to predict
PredictTexts == {StrVal(c) : c \in Concats(MaxPredictFrags)} \cup {NoneVal}

\* the number of consecutive predict calls up to and including the next one
Served == IF call.op = "predict" THEN Min(call.served + 1, MaxPredicts) ELSE 1

\* predict with the model left in training mode: the call changes the model
Predict_training_mode(text, return_all) ==
  /\ _emotion_predictor.loaded
  /\ LET res == EmotionPredictor_predict(_emotion_predictor, text, return_all)
     IN call' = [NoCall EXCEPT !.op = "predict",
                               !.text = text,
                               !.return_all = return_all,
                               !.tokIn = EmotionPredictor_tokIn(text),
                               !.probs = Forward(_emotion_predictor.weights,
                                                 EmotionPredictor_tokIn(text)),
                               !.err = res.err,
                               !.list = res.list,
                               !.served = Served]
  /\ _emotion_predictor' =
       [_emotion_predictor EXCEPT !.weights.seed = (@ + 1) % NumProbVals]
  /\ UNCHANGED <<fs, _sentiment_predictor, constructions,
                 load_failed, run, ldr, classifier, loads>>

\* predictor.predict(text, return_all) on the singleton a caller obtained
Predict(text, return_all) ==
  /\ _emotion_predictor.loaded
  /\ LET res == EmotionPredictor_predict(_emotion_predictor, text, return_all)
     IN call' = [NoCall EXCEPT !.op = "predict",
                               !.text = text,
                               !.return_all = return_all,
                               !.tokIn = EmotionPredictor_tokIn(text),
                               !.probs = Forward(_emotion_predictor.weights,
                                                 EmotionPredictor_tokIn(text)),
                               !.err = res.err,
                               !.list = res.list,
                               !.served = Served]
  /\ UNCHANGED <<fs, _emotion_predictor, _sentiment_predictor, constructions,
                 load_failed, run, ldr, classifier, loads>>

\* what may be found at SENTIMENT_MODEL_PATH
SentimentDirs ==
  {NoDir}
  \cup {[exists |-> TRUE,
         weights |-> IF m THEN WeightsOf(1, 3, 0) ELSE NoWeights,
         tokenizer |-> IF m THEN TokenizerOf(1) ELSE NoTokenizer,
         files |-> [f \in FileNames |->
                      IF f = LABEL_ENCODER_PATH /\ enc THEN FileOf(<<>>) ELSE NoFile]] :
          m \in BOOLEAN, enc \in BOOLEAN}

\* everything but the file system, before anything has run
Idle ==
  /\ _emotion_predictor = NoEngine
  /\ _sentiment_predictor = NoEngine
  /\ constructions = [emotion |-> 0, sentiment |-> 0]
  /\ load_failed = {}
  /\ call = NoCall
  /\ run = NoRun
  /\ ldr = NoLoader
  /\ classifier = NoClassifier
  /\ loads = 0

\* The backend serving predictions: the emotion model's directory is in any
\* state a deployment may leave it in.
Init ==
  /\ fs \in {[d \in Dirs |-> IF d = EMOTION_MODEL_PATH THEN b ELSE NoDir] : b \in BackendDirs}
  /\ Idle

Next ==
  \/ /\ ~_emotion_predictor.loaded
     /\ \E d \in BackendDirs : Deploy(d)
  \/ get_emotion_predictor
  \/ /\ _emotion_predictor.loaded
     /\ \E text \in PredictTexts, return_all \in BOOLEAN : Predict(text, return_all)

Spec == Init /\ [][Next]_vars

\* Which function the network computes plays no part in loading.
SingletonDirs == {d \in BackendDirs : d.weights.seed = 0}

\* The two lazily loaded singletons of the backend, called one after another.
InitSingleton ==
  /\ fs \in {[d \in Dirs |->
                IF d = EMOTION_MODEL_PATH THEN b
                ELSE IF d = SENTIMENT_MODEL_PATH THEN sd ELSE NoDir] :
               b \in SingletonDirs, sd \in SentimentDirs}
  /\ Idle

NextSingleton ==
  \/ \E d \in SingletonDirs : Deploy(d)
  \/ \E d \in SentimentDirs : DeploySentiment(d)
  \/ get_emotion_predictor
  \/ get_sentiment_predictor

SpecSingleton == InitSingleton /\ [][NextSingleton]_vars

\* ---------------------------------------------------------- training run

DEPRESSION_EMOTIONS ==
  <<"sadness", "emptiness", "hopelessness", "loneliness", "anger", "guilt", "shame", "fear">>

\* the directory train_emotion_classifier saves to and EmotionClassifier
\* loads from by default
EMOTION_CLASSIFIER_PATH == "emotion_classifier"

\* the matrices of m rows and n columns over S
Matrix(S, m, n) == SeqsOfLen(SeqsOfLen(S, n), m)

TrainSeeds == 0..MaxTrainSeed

\* train_emotion_classifier up to the threshold optimization (lines
\* 386-550): the data is split, the model is trained, and the thresholds are
\* found from the labels y_val of the validation split and the trained
\* model's probabilities val_probs on it.  The record of the call is left to
\* the specification.
TrainOptimize(emotion_names, y_val, val_probs, sd) ==
  /\ run.pc \in {"idle", "done"}
  /\ run.id < MaxRuns
  /\ Len(y_val) = Len(val_probs)
  /\ LET optimal_thresholds == find_optimal_thresholds(y_val, val_probs, emotion_names)
     IN /\ optimal_thresholds.err = "none"
        /\ run' = [id |-> run.id + 1,
                   pc |-> "optimized",
                   emotion_names |-> emotion_names,
                   num_labels |-> Len(emotion_names),
                   optimal_thresholds |-> optimal_thresholds.thresholds,
                   weights |-> WeightsOf(run.id + 1, Len(emotion_names), sd)]
  /\ UNCHANGED <<fs, _emotion_predictor, _sentiment_predictor, constructions,
                 load_failed, ldr, classifier, loads>>

\* the call of find_optimal_thresholds a run makes (line 550)
OptimizeCall(emotion_names, y_val, val_probs) ==
  LET optimal_thresholds == find_optimal_thresholds(y_val, val_probs, emotion_names)
  IN [NoCall EXCEPT !.op = "find_optimal_thresholds",
                    !.labels = y_val,
                    !.probs = val_probs,
                    !.names = emotion_names,
                    !.err = optimal_thresholds.err,
                    !.thresholds = optimal_thresholds.thresholds]

\* model_save_path.mkdir(exist_ok=True), after the evaluation on the test split
MakeDir ==
  /\ run.pc = "optimized"
  /\ run' = [run EXCEPT !.pc = "dir"]
  /\ fs' = [fs EXCEPT ![EMOTION_CLASSIFIER_PATH].exists = TRUE]
  /\ UNCHANGED <<_emotion_predictor, _sentiment_predictor, constructions,
                 load_failed, call, ldr, classifier, loads>>

\* trainer.save_model(str(model_save_path))
SaveModel ==
  /\ run.pc = "dir"
  /\ run' = [run EXCEPT !.pc = "model"]
  /\ fs' = [fs EXCEPT ![EMOTION_CLASSIFIER_PATH].weights = run.weights]
  /\ UNCHANGED <<_emotion_predictor, _sentiment_predictor, constructions,
                 load_failed, call, ldr, classifier, loads>>

\* tokenizer.save_pretrained(str(model_save_path))
SaveTokenizer ==
  /\ run.pc = "model"
  /\ run' = [run EXCEPT !.pc = "tokenizer"]
  /\ fs' = [fs EXCEPT ![EMOTION_CLASSIFIER_PATH].tokenizer = TokenizerOf(run.id)]
  /\ UNCHANGED <<_emotion_predictor, _sentiment_predictor, constructions,
                 load_failed, call, ldr, classifier, loads>>

\* the emotion_info dictionary of a run
emotion_info(r) ==
  <<Pair("emotion_names", r.emotion_names),
    Pair("num_emotions", <<r.num_labels>>),
    Pair("optimal_thresholds", r.optimal_thresholds)>>

\* a metadata file and the run that wrote it
InfoFile(r) == [present |-> TRUE, json |-> emotion_info(r), run |-> r.id]

\* json.dump(emotion_info, f) into emotion_info.json
WriteInfo ==
  /\ run.pc = "tokenizer"
  /\ run' = [run EXCEPT !.pc = "done"]
  /\ fs' = [fs EXCEPT ![EMOTION_CLASSIFIER_PATH].files["emotion_info.json"] = InfoFile(run)]
  /\ UNCHANGED <<_emotion_predictor, _sentiment_predictor, constructions,
                 load_failed, call, ldr, classifier, loads>>

\* ------------------------------------------- AI_Work: EmotionClassifier

\* the artifact directory holds the finished output of the last run
ArtifactComplete == run.id > 0 /\ run.pc = "done"

\* EmotionClassifier.__init__() up to the existence test of model_path
LoadStart ==
  /\ ldr.pc = "idle"
  /\ loads < MaxLoads
  /\ loads' = loads + 1
  /\ IF fs[EMOTION_CLASSIFIER_PATH].exists
       THEN /\ ldr' = [NoLoader EXCEPT !.pc = "tokenizer",
                                       !.startId = run.id, !.startPc = run.pc]
            /\ UNCHANGED classifier
       ELSE /\ classifier' = [NoClassifier EXCEPT !.err = "FileNotFoundError"]
            /\ UNCHANGED ldr
  /\ UNCHANGED <<fs, _emotion_predictor, _sentiment_predictor, constructions,
                 load_failed, call, run>>

\* AutoTokenizer.from_pretrained(str(model_path))
LoadTokenizer ==
  /\ ldr.pc = "tokenizer"
  /\ IF fs[EMOTION_CLASSIFIER_PATH].tokenizer.present
       THEN /\ ldr' = [ldr EXCEPT !.pc = "model",
                                  !.tokenizer = fs[EMOTION_CLASSIFIER_PATH].tokenizer]
            /\ UNCHANGED classifier
       ELSE /\ classifier' = [NoClassifier EXCEPT !.err = "OSError"]
            /\ ldr' = NoLoader
  /\ UNCHANGED <<fs, _emotion_predictor, _sentiment_predictor, constructions,
                 load_failed, call, run, loads>>

\* AutoModelForSequenceClassification.from_pretrained(str(model_path))
LoadModel ==
  /\ ldr.pc = "model"
  /\ IF fs[EMOTION_CLASSIFIER_PATH].weights.present
       THEN /\ ldr' = [ldr EXCEPT !.pc = "info",
                                  !.weights = fs[EMOTION_CLASSIFIER_PATH].weights]
            /\ UNCHANGED classifier
       ELSE /\ classifier' = [NoClassifier EXCEPT !.err = "OSError"]
            /\ ldr' = NoLoader
  /\ UNCHANGED <<fs, _emotion_predictor, _sentiment_predictor, constructions,
                 load_failed, call, run, loads>>

\* [0.5] * len(names)
DefaultThresholds(names) == [i \in 1..Len(names) |-> HALF]

\* the rest of EmotionClassifier.__init__: emotion_info.json is read if it
\* exists, else the default names and thresholds are taken
LoadInfo ==
  /\ ldr.pc = "info"
  /\ ldr' = NoLoader
  /\ LET info == fs[EMOTION_CLASSIFIER_PATH].files["emotion_info.json"]
         built == [NoClassifier EXCEPT
                     !.loaded = TRUE,
                     !.weights = ldr.weights,
                     !.tokenizer = ldr.tokenizer,
                     !.complete = /\ ArtifactComplete
                                  /\ ldr.startId = run.id
                                  /\ ldr.startPc = run.pc,
                     !.written = [names |-> run.emotion_names,
                                  thresholds |-> run.optimal_thresholds]]
     IN classifier' =
          IF ~info.present
            THEN [built EXCEPT !.emotion_names = DEPRESSION_EMOTIONS,
                               !.optimal_thresholds = DefaultThresholds(DEPRESSION_EMOTIONS)]
          ELSE IF ~HasKey(info.json, "emotion_names")
            THEN [NoClassifier EXCEPT !.err = "KeyError"]
          ELSE [built EXCEPT
                  !.from_file = TRUE,
                  !.info_run = info.run,
                  !.emotion_names = Get(info.json, "emotion_names"),
                  !.optimal_thresholds =
                    IF HasKey(info.json, "optimal_thresholds")
                      THEN Get(info.json, "optimal_thresholds")
                      ELSE DefaultThresholds(Get(info.json, "emotion_names"))]
  /\ UNCHANGED <<fs, _emotion_predictor, _sentiment_predictor, constructions,
                 load_failed, call, run, loads>>

\* EmotionPredictor(model_path) constructed on a directory of MODELS_DIR
ConstructPredictor(model_path) ==
  /\ LET r == EmotionPredictor_init(fs[model_path], 1)
     IN call' = [NoCall EXCEPT !.op = "EmotionPredictor",
                               !.path = model_path,
                               !.err = r.err,
                               !.engine = r.engine,
                               !.complete = ArtifactComplete,
                               !.names = run.emotion_names,
                               !.thresholds = run.optimal_thresholds]
  /\ UNCHANGED <<fs, _emotion_predictor, _sentiment_predictor, constructions,
                 load_failed, run, ldr, classifier, loads>>

\* No model directory exists before the first run.
InitTrain ==
  /\ fs = [d \in Dirs |-> NoDir]
  /\ Idle

\* one run, which records its call of find_optimal_thresholds
NextOpt ==
  \/ /\ run.id = 0
     /\ \E names \in NameLists :
          \E m \in 1..MaxVal :
            \E y_val \in Matrix({0, 1}, m, Len(names)),
               val_probs \in Matrix(ValProbs, m, Len(names)),
               sd \in TrainSeeds :
              /\ TrainOptimize(names, y_val, val_probs, sd)
              /\ call' = OptimizeCall(names, y_val, val_probs)
  \/ MakeDir
  \/ SaveModel
  \/ SaveTokenizer
  \/ WriteInfo

SpecOpt == InitTrain /\ [][NextOpt]_vars

\* the runs (on validation splits of at most MaxTrainVal examples: here the
\* data matters only through the names and thresholds a run writes), and
\* beside them
\* inference engines constructed on the artifact directory
NextTrain ==
  \/ /\ run.pc \in {"idle", "done"}
     /\ run.id < MaxRuns
     /\ \E names \in NameLists :
          \E m \in 1..MaxTrainVal :
            \E y_val \in Matrix({0, 1}, m, Len(names)),
               val_probs \in Matrix(ValProbs, m, Len(names)),
               sd \in TrainSeeds :
              /\ TrainOptimize(names, y_val, val_probs, sd)
              /\ UNCHANGED call
  \/ MakeDir
  \/ SaveModel
  \/ SaveTokenizer
  \/ WriteInfo
  \/ LoadStart
  \/ LoadTokenizer
  \/ LoadModel
  \/ LoadInfo
  \/ \E model_path \in {EMOTION_CLASSIFIER_PATH, EMOTION_MODEL_PATH} :
       ConstructPredictor(model_path)

SpecTrain == InitTrain /\ [][NextTrain]_vars

\* ------------------------------------------------------------------ claims

\* the vocabulary indices of the singleton engine whose probability in the
\* last predict call clears the label's own threshold
Cleared ==
  {i \in 1..Len(_emotion_predictor.emotions) :
     call.probs[i] >= _emotion_predictor.thresholds[i]}

\* every vocabulary index of the singleton engine has a probability and a
\* threshold
Paired ==
  /\ Len(_emotion_predictor.emotions) <= Len(call.probs)
  /\ Len(_emotion_predictor.emotions) <= Len(_emotion_predictor.thresholds)

C2_SortedByConfidence ==
  (call.op = "predict" /\ call.err = "none") =>
    \A k \in 1..(Len(call.list) - 1) :
      call.list[k].confidence >= call.list[k + 1].confidence

\* a list of two entries has been returned in which the later vocabulary
\* entry comes first, with the strictly higher confidence
C2_Witness ==
  /\ call.op = "predict" /\ call.err = "none"
  /\ Len(call.list) = 2
  /\ call.list[1].emotion = "anger"
  /\ call.list[2].emotion = "sadness"
  /\ call.list[1].confidence > call.list[2].confidence

\* C3: no engine is ever constructed, and no predict call is ever served,
\* with a number of thresholds that differs from the number of emotion names.
C3_NoVocabularyMismatch ==
  _emotion_predictor.loaded =>
    Len(_emotion_predictor.thresholds) = Len(_emotion_predictor.emotions)

\* C4: an engine object exists only if its constructor found the artifact
\* directory and the metadata file in it: an EmotionClassifier that is built
\* has read its names and thresholds from the metadata file (none is built
\* with the default vocabulary or default thresholds), and an
\* EmotionPredictor is built only on a directory that exists and holds its
\* metadata file; every other construction ended in a not-found error.
C4_NotFoundWithoutMetadata ==
  /\ classifier.loaded => classifier.from_file
  /\ (call.op = "EmotionPredictor" /\ call.engine.loaded) =>
       /\ fs[call.path].exists
       /\ fs[call.path].files["emotion_config.json"].present
  /\ (call.op = "EmotionPredictor" /\ ~call.engine.loaded) =>
       call.err = "FileNotFoundError"

\* C5: an inference engine constructed on the directory a training run has
\* completed holds the ordered emotion names and the ordered thresholds the
\* run wrote, for the backend EmotionPredictor and for the AI_Work
\* EmotionClassifier.
C5_MetadataRoundTrip ==
  /\ ( /\ call.op = "EmotionPredictor"
       /\ call.path = EMOTION_CLASSIFIER_PATH
       /\ call.complete ) =>
       /\ call.err = "none"
       /\ call.engine.emotions = call.names
       /\ call.engine.thresholds = call.thresholds
  /\ classifier.complete =>
       /\ classifier.emotion_names = classifier.written.names
       /\ classifier.optimal_thresholds = classifier.written.thresholds

\* the metadata file of the artifact directory
InfoWritten == fs[EMOTION_CLASSIFIER_PATH].files["emotion_info.json"]

\* C6: find_optimal_thresholds returns, without an error, one threshold for
\* each emotion name, each in [0, 1], and in vocabulary order: threshold i is
\* 0.5 or a grid point, and no grid point gives column i of the validation
\* split a higher F1 than threshold i does.  The metadata a run writes has
\* num_emotions = len(emotion_names) = len(optimal_thresholds).
C6_ThresholdVectorShape ==
  /\ call.op = "find_optimal_thresholds" =>
       /\ call.err = "none"
       /\ Len(call.thresholds) = Len(call.names)
       /\ \A i \in 1..Len(call.thresholds) :
            LET y == Column(call.labels, i)
                p == Column(call.probs, i)
                t == call.thresholds[i]
            IN /\ 0 <= t /\ t <= ONE
               /\ t = DefaultThreshold \/ \E k \in 0..(GridSize - 1) : t = GridPoint(k)
               /\ \A k \in 0..(GridSize - 1) :
                    FracGeq(f1_score(y, Preds(p, t)), f1_score(y, Preds(p, GridPoint(k))))
  /\ InfoWritten.present =>
       /\ Get(InfoWritten.json, "num_emotions") = <<Len(Get(InfoWritten.json, "emotion_names"))>>
       /\ Len(Get(InfoWritten.json, "emotion_names")) =
            Len(Get(InfoWritten.json, "optimal_thresholds"))

\* a run on two emotion names has written its metadata, with different
\* thresholds found for the two names
C6_Witness ==
  /\ call.op = "find_optimal_thresholds"
  /\ Len(call.names) = 2
  /\ Len(call.thresholds) = 2
  /\ call.thresholds[1] # call.thresholds[2]
  /\ call.thresholds[1] # DefaultThreshold
  /\ InfoWritten.present
  /\ Get(InfoWritten.json, "optimal_thresholds") = call.thresholds
  /\ Get(InfoWritten.json, "emotion_names") = call.names

\* C7: for every label, the F1 on the validation split at the threshold
\* find_optimal_thresholds chose (present iff prob >= threshold) is at least
\* the F1 on it at threshold 0.5.
C7_ChosenBeatsDefault ==
  call.op = "find_optimal_thresholds" =>
    \A i \in 1..Len(call.thresholds) :
      LET y == Column(call.labels, i)
          p == Column(call.probs, i)
      IN FracGeq(f1_score(y, Preds(p, call.thresholds[i])),
                 f1_score(y, Preds(p, HALF)))

\* C8: the string predict hands to the tokenizer for a text is the string
\* training hands to the tokenizer for that text.
C8_SameNormalizer ==
  call.op = "predict" => call.tokIn = MultiLabelEmotionDataset_tokIn(call.text)

\* an EmotionClassifier built from a metadata file holds the weights of
\* the run that wrote the file
OneRunPerEngine ==
  (classifier.loaded /\ classifier.from_file) =>
    classifier.info_run = classifier.weights.run

\* no step changes the artifact directory once a run has completed it
ArtifactFrozen ==
  ArtifactComplete => fs'[EMOTION_CLASSIFIER_PATH] = fs[EMOTION_CLASSIFIER_PATH]

\* C9: however the save steps of the training runs interleave with the
\* construction of an inference engine on the artifact directory, the engine
\* never holds the weights of one run with the names and thresholds of
\* another, and no run changes an artifact a run has completed.
C9_AtomicArtifact == [](OneRunPerEngine) /\ [][ArtifactFrozen]_vars

\* what every state of the two singletons satisfies
SingletonState ==
  /\ constructions.emotion <= 1
  /\ constructions.sentiment <= 1
  /\ _emotion_predictor.loaded <=> constructions.emotion = 1
  /\ _sentiment_predictor.loaded <=> constructions.sentiment = 1
  /\ call.op = "get_emotion_predictor" =>
       /\ call.ret = _emotion_predictor.id
       /\ ~call.attempted => call.ret # 0 /\ call.ret = call.before
       /\ (call.attempted /\ call.err # "none") =>
            call.ret = 0 /\ ~_emotion_predictor.loaded
       /\ (call.attempted /\ call.err = "none") => _emotion_predictor.loaded
  /\ call.op = "get_sentiment_predictor" =>
       /\ call.ret = _sentiment_predictor.id
       /\ ~call.attempted => call.ret # 0 /\ call.ret = call.before
       /\ (call.attempted /\ call.err # "none") =>
            call.ret = 0 /\ ~_sentiment_predictor.loaded
       /\ (call.attempted /\ call.err = "none") => _sentiment_predictor.loaded

\* what every step of the two singletons satisfies: a set singleton stays
\* the same object and nothing is constructed again; a call that finds the
\* singleton None attempts the construction
SingletonStep ==
  /\ _emotion_predictor.loaded =>
       /\ _emotion_predictor' = _emotion_predictor
       /\ constructions'.emotion = constructions.emotion
  /\ _sentiment_predictor.loaded =>
       /\ _sentiment_predictor' = _sentiment_predictor
       /\ constructions'.sentiment = constructions.sentiment
  /\ (call' # call /\ call'.op = "get_emotion_predictor") =>
       (call'.attempted <=> ~_emotion_predictor.loaded)
  /\ (call' # call /\ call'.op = "get_sentiment_predictor") =>
       (call'.attempted <=> ~_sentiment_predictor.loaded)

\* C10: under sequential calls of get_emotion_predictor and
\* get_sentiment_predictor, once a call has constructed the predictor every
\* later call returns that same instance without constructing again; a call
\* whose construction failed returns None and leaves the singleton None, and
\* the next call attempts the construction again.
C10_LazySingleton == [](SingletonState) /\ [][SingletonStep]_vars

\* after a failed load of each predictor a later call has loaded it, and a
\* call after that has returned the loaded instance
C10_Witness ==
  /\ load_failed = {"emotion", "sentiment"}
  /\ _emotion_predictor.loaded
  /\ _sentiment_predictor.loaded
  /\ call.op = "get_emotion_predictor"
  /\ ~call.attempted
  /\ call.ret = 1

\* the engine answers a second consecutive predict call as it answered the
\* first one for the same arguments, and no predict call changes the engine
SamePredict ==
  (call.op = "predict" /\ call'.op = "predict") =>
    /\ _emotion_predictor' = _emotion_predictor
    /\ (call'.text = call.text /\ call'.return_all = call.return_all) =>
         /\ call'.probs = call.probs
         /\ call'.err = call.err
         /\ call'.list = call.list

E_sadness ==
  <<"s", "a", "d", "n", "e", "s", "s">>
E_emptiness ==
  <<"e", "m", "p", "t", "i", "n", "e", "s", "s">>
E_hopelessness ==
  <<"h", "o", "p", "e", "l", "e", "s", "s", "n", "e", "s", "s">>
E_loneliness ==
  <<"l", "o", "n", "e", "l", "i", "n", "e", "s", "s">>
E_anger ==
  <<"a", "n", "g", "e", "r">>
E_guilt ==
  <<"g", "u", "i", "l", "t">>
E_shame ==
  <<"s", "h", "a", "m", "e">>
E_fear ==
  <<"f", "e", "a", "r">>
E_worthlessness ==
  <<"w", "o", "r", "t", "h", "l", "e", "s", "s", "n", "e", "s", "s">>
E_suicide_intent_alias ==
  <<"s", "u", "i", "c", "i", "d", "e", " ", "i", "n", "t", "e", "n", "t">>
E_brain_dysfunction_forget ==
  <<"b", "r", "a", "i", "n", " ", "d", "y", "s", "f", "u", "n", "c", "t", "i", "o", "n", " ", "(", "f", "o", "r", "g", "e", "t", ")">>
E_cognitive_dysfunction ==
  <<"c", "o", "g", "n", "i", "t", "i", "v", "e", "_", "d", "y", "s", "f", "u", "n", "c", "t", "i", "o", "n">>
E_cognitive_dysfunction_alias ==
  <<"c", "o", "g", "n", "i", "t", "i", "v", "e", " ", "d", "y", "s", "f", "u", "n", "c", "t", "i", "o", "n">>
E_suicide_intent ==
  <<"s", "u", "i", "c", "i", "d", "e", "_", "i", "n", "t", "e", "n", "t">>
E_brain_dysfunction ==
  <<"b", "r", "a", "i", "n", "_", "d", "y", "s", "f", "u", "n", "c", "t", "i", "o", "n">>
E_joy ==
  <<"j", "o", "y">>

STANDARD_EMOTIONS ==
  <<E_sadness, E_emptiness, E_hopelessness, E_loneliness, E_anger, E_guilt, E_shame, E_fear>>

ADDITIONAL_EMOTIONS ==
  <<E_worthlessness, E_suicide_intent_alias, E_brain_dysfunction_forget, E_cognitive_dysfunction>>

ALL_EMOTIONS == STANDARD_EMOTIONS \o ADDITIONAL_EMOTIONS

EMOTION_MAPPING ==
  (E_suicide_intent_alias :> E_suicide_intent)
    @@ (E_brain_dysfunction_forget :> E_brain_dysfunction)
    @@ (E_cognitive_dysfunction :> E_brain_dysfunction)
    @@ (E_cognitive_dysfunction_alias :> E_brain_dysfunction)

\* s.lower()
str_lower(s) == [i \in 1..Len(s) |-> Lower(s[i])]

\* normalize_emotion_name with the alias "cognitive dysfunction" sent to the
\* other alias "cognitive_dysfunction"
normalize_emotion_name_chained(emotion) ==
  LET e == Strip(str_lower(emotion))
  IN IF e = E_cognitive_dysfunction_alias THEN E_cognitive_dysfunction
     ELSE IF e \in DOMAIN EMOTION_MAPPING THEN EMOTION_MAPPING[e]
     ELSE e

normalize_emotion_name(emotion) ==
  LET e == Strip(str_lower(emotion))
  IN IF e \in DOMAIN EMOTION_MAPPING THEN EMOTION_MAPPING[e] ELSE e

\* str.upper on one character
Upper(c) ==
  CASE c = "d" -> "D"
    [] c = "e" -> "E"
    [] c = "n" -> "N"
    [] c = "r" -> "R"
    [] OTHER -> c

\* the elements of a sequence
Range(q) == {q[i] : i \in 1..Len(q)}

\* the names an annotation may carry: the vocabulary lists, the keys and the
\* values of the alias table, and a name outside them
EmotionNames ==
  Range(ALL_EMOTIONS) \cup DOMAIN EMOTION_MAPPING
    \cup {EMOTION_MAPPING[k] : k \in DOMAIN EMOTION_MAPPING} \cup {E_joy}

\* the names as annotators write them: in upper case or not, with or
\* without spaces around them
EmotionStrings ==
  {pre \o c \o post :
     c \in EmotionNames \cup {[i \in 1..Len(n) |-> Upper(n[i])] : n \in EmotionNames},
     pre \in {<<>>, <<" ">>},
     post \in {<<>>, <<" ">>, <<"\n">>}}

\* --------------------------- prepare_depression_emo.py: the dataset

\* a field of a JSON entry that is absent
Absent == [kind |-> "absent", chars |-> <<>>]

\* entry.get('text', entry.get('post', ''))
entry_text(entry) ==
  IF entry.text.kind # "absent" THEN entry.text
  ELSE IF entry.post.kind # "absent" THEN entry.post
  ELSE StrVal(<<>>)

\* the test of line 141 negated: the entry is processed
HasText(entry, min_text_length) ==
  LET text == entry_text(entry)
  IN /\ text.kind = "str"
     /\ text.chars # <<>>
     /\ Len(Strip(text.chars)) >= min_text_length

extract_emotions_from_entry(entry) ==
  [i \in 1..Len(entry.emotions) |-> normalize_emotion_name(entry.emotions[i])]

\* create_emotion_labels: the label of each name of emotion_set, in its order
create_emotion_labels(emotions_list, emotion_set) ==
  [j \in 1..Len(emotion_set) |->
     IF emotion_set[j] \in Range(emotions_list) THEN 1 ELSE 0]

\* the data entry of lines 155-161
data_entry(entry, target_emotions) ==
  LET emotions == extract_emotions_from_entry(entry)
  IN [id |-> entry.id,
      text |-> Strip(entry_text(entry).chars),
      emotions_list |-> emotions,
      labels |-> create_emotion_labels(emotions, target_emotions)]

\* the loop of lines 137-163 that also skips an entry without a label of
\* the target vocabulary
RECURSIVE processed_data_labelled(_, _, _)
processed_data_labelled(entries, target_emotions, min_text_length) ==
  IF entries = <<>> THEN <<>>
  ELSE LET row == data_entry(Head(entries), target_emotions)
       IN (IF /\ HasText(Head(entries), min_text_length)
              /\ \E j \in 1..Len(row.labels) : row.labels[j] = 1
             THEN <<row>>
             ELSE <<>>)
            \o processed_data_labelled(Tail(entries), target_emotions, min_text_length)

\* the loop of lines 137-163 over the entries of one split
RECURSIVE processed_data(_, _, _)
processed_data(entries, target_emotions, min_text_length) ==
  IF entries = <<>> THEN <<>>
  ELSE (IF HasText(Head(entries), min_text_length)
          THEN <<data_entry(Head(entries), target_emotions)>>
          ELSE <<>>)
         \o processed_data(Tail(entries), target_emotions, min_text_length)

\* lines 106-115
target_emotions_of(use_standard_emotions_only, include_additional) ==
  IF use_standard_emotions_only THEN STANDARD_EMOTIONS
  ELSE IF include_additional THEN ALL_EMOTIONS
  ELSE STANDARD_EMOTIONS

\* texts of nine and of ten characters
Text9 == <<"i", " ", "a", "m", " ", "s", "a", "d", ".">>
Text10 == <<"i", " ", "a", "m", " ", "s", "a", "d", ".", ".">>

\* the values of the text field of an entry
EntryTexts ==
  {Absent, NoneVal, StrVal(<<>>), StrVal(<<" ", "\n">>),
   StrVal(Text9), StrVal(Text10), StrVal(<<" ">> \o Text9 \o <<" ", "\n">>)}

\* the annotations of an entry
EntryEmotions ==
  {<<>>, <<E_joy>>, <<<<" ", "s", "a", "D", "N", "E", "s", "s">>, E_fear>>,
   <<E_suicide_intent_alias>>, <<E_cognitive_dysfunction_alias>>,
   <<E_joy, E_brain_dysfunction_forget>>}

\* the entries of a split file, without their id; the post field is read
\* only when the text field is absent
Entries ==
  {[text |-> t, post |-> q, emotions |-> e] :
     t \in EntryTexts \ {Absent}, q \in {Absent}, e \in EntryEmotions}
    \cup {[text |-> Absent, post |-> q, emotions |-> e] :
           q \in {Absent, StrVal(Text10)}, e \in EntryEmotions}

\* the split files: up to MaxEntries entries, each with its position as id
SplitFiles ==
  {[i \in 1..Len(q) |-> [id |-> i, text |-> q[i].text, post |-> q[i].post,
                         emotions |-> q[i].emotions]] :
     q \in SeqsUpTo(Entries, MaxEntries)}

\* values of the min_text_length argument (default 10)
MinTextLengths == {3, 10}

\* normalize_emotion_name(emotion)
Normalize(emotion) ==
  /\ call = NoCall
  /\ call' = [op |-> "normalize_emotion_name",
              emotion |-> emotion,
              ret |-> normalize_emotion_name(emotion)]
  /\ UNCHANGED <<fs, _emotion_predictor, _sentiment_predictor, constructions,
                 load_failed, run, ldr, classifier, loads>>

\* prepare_depression_emo_dataset on one split file
PrepareDataset(entries, use_standard_emotions_only, include_additional, min_text_length) ==
  LET target_emotions == target_emotions_of(use_standard_emotions_only, include_additional)
  IN /\ call = NoCall
     /\ call' = [op |-> "prepare_depression_emo_dataset",
                 entries |-> entries,
                 min_text_length |-> min_text_length,
                 target_emotions |-> target_emotions,
                 processed_data |->
                   processed_data(entries, target_emotions, min_text_length)]
     /\ UNCHANGED <<fs, _emotion_predictor, _sentiment_predictor, constructions,
                    load_failed, run, ldr, classifier, loads>>

\* The preparation of the dataset: one call of one of its functions, which
\* keep no state from one call to the next.
InitPrep ==
  /\ fs = [d \in Dirs |-> NoDir]
  /\ Idle

NextPrep ==
  \/ /\ call = NoCall
     /\ \E emotion \in EmotionStrings : Normalize(emotion)
  \/ /\ call = NoCall
     /\ \E entries \in SplitFiles, std \in BOOLEAN, add \in BOOLEAN, min \in MinTextLengths :
          PrepareDataset(entries, std, add, min)

SpecPrep == InitPrep /\ [][NextPrep]_vars

\* C12: normalize_emotion_name maps every name or alias to one canonical
\* name, which is no alias of the table, has no upper-case letter and no
\* space around it, and which normalization maps to itself:
\* normalize(normalize(x)) = normalize(x).
C12_NormalizeIdempotent ==
  call.op = "normalize_emotion_name" =>
    /\ normalize_emotion_name(call.ret) = call.ret
    /\ call.ret \notin DOMAIN EMOTION_MAPPING
    /\ call.ret = Strip(str_lower(call.ret))
    /\ Strip(str_lower(call.emotion)) \in DOMAIN EMOTION_MAPPING =>
         call.ret = EMOTION_MAPPING[Strip(str_lower(call.emotion))]

\* the alias "cognitive dysfunction", written in upper case with spaces
\* around it, has been mapped to brain_dysfunction
C12_Witness ==
  /\ call.op = "normalize_emotion_name"
  /\ call.emotion # Strip(str_lower(call.emotion))
  /\ Strip(str_lower(call.emotion)) = E_cognitive_dysfunction_alias
  /\ call.ret = E_brain_dysfunction

\* the ids of the rows of the prepared data
KeptIds == {call.processed_data[k].id : k \in 1..Len(call.processed_data)}

\* C19: in every row prepare_depression_emo_dataset keeps, under the
\* standard vocabulary and under the standard plus additional one, the label
\* in column j is 1 if and only if the normalized emotion list of the record
\* contains the canonical name of label j; so a record annotated with the
\* alias "suicide intent" or "cognitive dysfunction" has a 1 in the column of
\* that label.
C19_LabelIffAnnotated ==
  call.op = "prepare_depression_emo_dataset" =>
    \A k \in 1..Len(call.processed_data) :
      LET row == call.processed_data[k]
          annotated == {normalize_emotion_name(e) :
                          e \in Range(call.entries[row.id].emotions)}
      IN \A j \in 1..Len(call.target_emotions) :
           row.labels[j] = 1 <=>
             normalize_emotion_name(call.target_emotions[j]) \in annotated

\* C20: prepare_depression_emo_dataset keeps an entry if and only if its
\* text (the text field, else the post field) is a string that has, trimmed,
\* at least min_text_length characters, whatever its labels are; the rows
\* are in the order of the entries and hold the trimmed text, and an entry
\* whose labels are all outside the target vocabulary gives a row of zeros.
C20_KeptIffLongEnough ==
  call.op = "prepare_depression_emo_dataset" =>
    /\ \A i \in 1..Len(call.entries) :
         i \in KeptIds <=>
           /\ entry_text(call.entries[i]).kind = "str"
           /\ Len(Strip(entry_text(call.entries[i]).chars)) >= call.min_text_length
    /\ \A k \in 1..Len(call.processed_data) :
         LET row == call.processed_data[k]
         IN /\ row.id \in 1..Len(call.entries)
            /\ row.text = Strip(entry_text(call.entries[row.id]).chars)
            /\ \A l \in 1..(k - 1) : call.processed_data[l].id < row.id
            /\ (\A e \in Range(call.entries[row.id].emotions) :
                  normalize_emotion_name(e) \notin Range(call.target_emotions))
                 => \A j \in 1..Len(row.labels) : row.labels[j] = 0

\* of two entries, the one whose only label is outside the vocabulary has
\* been kept with a row of zeros, and the one with a label of the
\* vocabulary and a text of nine characters between spaces has been dropped
C20_Witness ==
  /\ call.op = "prepare_depression_emo_dataset"
  /\ call.min_text_length = 10
  /\ Len(call.entries) = 2
  /\ call.entries[1].emotions = <<E_joy>>
  /\ call.entries[2].emotions = <<E_suicide_intent_alias>>
  /\ Len(call.entries[2].text.chars) > 10
  /\ KeptIds = {1}
  /\ \A j \in 1..Len(call.target_emotions) : call.processed_data[1].labels[j] = 0

\* ------------------------------------------------- preprocess_text alone

\* preprocess_text(text)
Preprocess(text) ==
  /\ call = NoCall
  /\ call' = [op |-> "preprocess_text", text |-> text, ret |-> preprocess_text(text)]
  /\ UNCHANGED <<fs, _emotion_predictor, _sentiment_predictor, constructions,
                 load_failed, run, ldr, classifier, loads>>

\* One call of preprocess_text, which keeps no state.
InitText ==
  /\ fs = [d \in Dirs |-> NoDir]
  /\ Idle

NextText == call = NoCall /\ \E text \in RawTexts : Preprocess(text)

SpecText == InitText /\ [][NextText]_vars

\* the text of a call of preprocess_text with its URLs, mentions and
\* placeholders removed, its whitespace collapsed, and trimmed
Cleaned ==
  Strip(SubSpaces(SubPlaceholder(SubMention(SubUrl(call.text.chars, 1), 1), 1), 1))

\* C17: preprocess_text never returns the empty string; it returns
\* "[empty]" for every non-text payload and for every text whose cleaned
\* form has fewer than 3 characters (the empty and the whitespace-only text
\* among them), and the cleaned text for every other text.
C17_SentinelOrCleaned ==
  call.op = "preprocess_text" =>
    /\ call.ret # <<>>
    /\ call.text.kind # "str" => call.ret = Str_empty
    /\ (call.text.kind = "str" /\ Len(Cleaned) < 3) => call.ret = Str_empty
    /\ (call.text.kind = "str" /\ Len(Cleaned) >= 3) => call.ret = Cleaned

\* ------------------------------------- the training pipeline: the data

\* ADDITIONAL_EMOTIONS of train_emotion_classifier.py
TRAIN_ADDITIONAL_EMOTIONS == <<"worthlessness", "suicide_intent", "brain_dysfunction">>

\* all_possible_emotions of prepare_emotion_labels
all_possible_emotions == DEPRESSION_EMOTIONS \o TRAIN_ADDITIONAL_EMOTIONS

\* the emotion columns of the dataframes
DfColumns == <<"sadness", "fear">>

\* the names found in emotions_list cells, in sorted() order
ListNames == <<"joy", "sadness">>

\* the emotions_list column: absent, or one cell per row, each cell a list
\* (a dataframe built in memory) or the text of a list (one read from CSV)
NoEmotionsList == [kind |-> "absent", cells |-> <<>>]

\* the dataframes: numeric 0/1 emotion columns, rows numbered from 1; or no
\* text column; or no emotion column and an emotions_list column
Dataframes ==
  {[has_text |-> TRUE, columns |-> DfColumns, rows |-> rows,
    emotions_list |-> NoEmotionsList] :
     rows \in UNION {Matrix({0, 1}, n, Len(DfColumns)) : n \in 1..MaxRows}}
  \cup {[has_text |-> FALSE, columns |-> DfColumns,
          rows |-> [r \in 1..MaxRows |-> <<1, 1>>],
          emotions_list |-> NoEmotionsList]}
  \cup {[has_text |-> TRUE, columns |-> <<>>, rows |-> [r \in 1..MaxRows |-> <<>>],
          emotions_list |-> [kind |-> k, cells |-> cells]] :
           k \in {"str", "list"},
           cells \in SeqsOfLen({<<>>, <<"joy">>, <<"sadness", "joy">>}, MaxRows)}

\* labels.sum() of column j of a matrix
ColumnSum(rows, j) == Cardinality({r \in 1..Len(rows) : rows[r][j] = 1})

\* the index of a name in a list of names, 0 if it is not in it
RECURSIVE IndexOf(_, _)
IndexOf(names, name) ==
  IF names = <<>> THEN 0
  ELSE IF names[Len(names)] = name /\ IndexOf(SubSeq(names, 1, Len(names) - 1), name) = 0
    THEN Len(names)
  ELSE IndexOf(SubSeq(names, 1, Len(names) - 1), name)

\* is the name a column of the dataframe with a positive sample
ColumnWithPositives(df, emotion) ==
  /\ IndexOf(df.columns, emotion) > 0
  /\ ColumnSum(df.rows, IndexOf(df.columns, emotion)) > 0

\* lines 303-315: the emotion columns found, those with a positive sample
ColumnsFound(df) ==
  SelectSeq(all_possible_emotions, LAMBDA emotion : ColumnWithPositives(df, emotion))

\* the label of a row for a name from its emotions_list cell (line 338: a
\* cell that is not a list counts as the empty list)
ListLabel(df, r, emotion) ==
  IF df.emotions_list.kind = "list" /\ emotion \in Range(df.emotions_list.cells[r])
    THEN 1 ELSE 0

\* lines 318-344: the names found in emotions_list that have a positive
\* sample, in sorted order
ListsFound(df) ==
  IF df.emotions_list.kind = "absent" THEN <<>>
  ELSE SelectSeq(ListNames,
         LAMBDA emotion :
           /\ \E r \in 1..Len(df.rows) : emotion \in Range(df.emotions_list.cells[r])
           /\ \E r \in 1..Len(df.rows) : ListLabel(df, r, emotion) = 1)

\* prepare_emotion_labels(df): the exception raised ("none" if none), the
\* texts (by row number), the label matrix and the emotion names
prepare_emotion_labels(df) ==
  LET failed == [err |-> "ValueError", texts |-> <<>>, labels |-> <<>>,
                 available_emotions |-> <<>>]
      n == Len(df.rows)
  IN IF ~df.has_text THEN failed
     ELSE IF ColumnsFound(df) # <<>>
       THEN [err |-> "none",
             texts |-> [r \in 1..n |-> r],
             labels |-> [r \in 1..n |->
                           [j \in 1..Len(ColumnsFound(df)) |->
                              df.rows[r][IndexOf(df.columns, ColumnsFound(df)[j])]]],
             available_emotions |-> ColumnsFound(df)]
     ELSE IF ListsFound(df) # <<>>
       THEN [err |-> "none",
             texts |-> [r \in 1..n |-> r],
             labels |-> [r \in 1..n |->
                           [j \in 1..Len(ListsFound(df)) |->
                              ListLabel(df, r, ListsFound(df)[j])]],
             available_emotions |-> ListsFound(df)]
     ELSE failed

\* ------------------------------------ the training pipeline: the splits

\* the elements of a set of numbers, in ascending order
RECURSIVE Ascending(_)
Ascending(S) ==
  IF S = {} THEN <<>>
  ELSE LET least == CHOOSE x \in S : \A y \in S : x <= y
       IN <<least>> \o Ascending(S \ {least})

\* array[idx]
Take(array, idx) == [k \in 1..Len(idx) |-> array[idx[k]]]

\* test_size in tenths: 0.3 and 0.5
HoldoutSize == 3
ValTestSize == 5

\* ceil(test_size * n_samples)
NTest(n, test_size) == (n * test_size + 9) \div 10

\* the index pairs a shuffle split of n samples may return (the elements of
\* each part in ascending order), or the ValueError of an empty train part
SplitOutcomes(n, test_size) ==
  IF n - NTest(n, test_size) = 0
    THEN {[err |-> "ValueError", train |-> <<>>, test |-> <<>>]}
    ELSE {[err |-> "none", train |-> Ascending((1..n) \ T), test |-> Ascending(T)] :
            T \in {U \in SUBSET (1..n) : Cardinality(U) = NTest(n, test_size)}}

\* the returns of one split call: the function that made the split, the
\* arguments it was given, whether the warning was printed, and the parts
SplitReturns(texts, labels, used, test_size, random_state, warned) ==
  {[err |-> o.err, used |-> used, test_size |-> test_size,
    random_state |-> random_state, warned |-> warned,
    X_train |-> Take(texts, o.train), X_temp |-> Take(texts, o.test),
    y_train |-> Take(labels, o.train), y_temp |-> Take(labels, o.test)] :
     o \in SplitOutcomes(Len(texts), test_size)}

\* stratified_split_multi_label that falls back without a warning
stratified_split_multi_label_silent(texts, labels, test_size, random_state, import_ok) ==
  IF import_ok
    THEN SplitReturns(texts, labels, "MultilabelStratifiedShuffleSplit",
                      test_size, random_state, FALSE)
    ELSE SplitReturns(texts, labels, "train_test_split", test_size, random_state, FALSE)

\* stratified_split_multi_label(texts, labels, test_size, random_state):
\* the returns it may make when the import of iterstrat succeeds and when it
\* raises ImportError
stratified_split_multi_label(texts, labels, test_size, random_state, import_ok) ==
  IF import_ok
    THEN SplitReturns(texts, labels, "MultilabelStratifiedShuffleSplit",
                      test_size, random_state, FALSE)
    ELSE SplitReturns(texts, labels, "train_test_split", test_size, random_state, TRUE)

\* calculate_class_weights without the cap
calculate_class_weights_uncapped(labels) ==
  [i \in 1..(IF labels = <<>> THEN 0 ELSE Len(labels[1])) |->
     LET pos_count == ColumnSum(labels, i)
         neg_count == Len(labels) - pos_count
     IN IF pos_count > 0 /\ neg_count > 0
          THEN <<neg_count, pos_count>>
          ELSE <<1, 1>>]

\* calculate_class_weights(labels): the weight of each class as the fraction
\* <<numerator, denominator>>
calculate_class_weights(labels) ==
  [i \in 1..(IF labels = <<>> THEN 0 ELSE Len(labels[1])) |->
     LET pos_count == ColumnSum(labels, i)
         neg_count == Len(labels) - pos_count
     IN IF pos_count > 0 /\ neg_count > 0
          THEN IF neg_count > 10 * pos_count THEN <<10, 1>> ELSE <<neg_count, pos_count>>
          ELSE <<1, 1>>]

\* ------------------------------------ the training pipeline: the steps

\* random_state=42 of both split calls
RandomState == 42

\* main() before its first step, df the dataframe load_depression_emo_data
\* returned and iterstrat telling whether the library can be imported
NoPipeline ==
  [pc |-> "start", iterstrat |-> TRUE, df |-> <<>>, err |-> "none",
   texts |-> <<>>, labels |-> <<>>, emotion_names |-> <<>>,
   X_train |-> <<>>, y_train |-> <<>>, X_temp |-> <<>>, y_temp |-> <<>>,
   X_val |-> <<>>, y_val |-> <<>>, X_test |-> <<>>, y_test |-> <<>>,
   warnings |-> 0, class_weights |-> <<>>, trained |-> FALSE, persisted |-> FALSE]

PipelineUnchanged ==
  UNCHANGED <<fs, _emotion_predictor, _sentiment_predictor, constructions,
              load_failed, ldr, classifier, loads>>

\* texts, labels, emotion_names = prepare_emotion_labels(df)
PrepareLabels ==
  /\ run.pc = "start"
  /\ LET r == prepare_emotion_labels(run.df)
     IN run' = IF r.err = "none"
                 THEN [run EXCEPT !.pc = "labels", !.texts = r.texts,
                                  !.labels = r.labels,
                                  !.emotion_names = r.available_emotions]
                 ELSE [run EXCEPT !.pc = "failed", !.err = r.err]
  /\ UNCHANGED call
  /\ PipelineUnchanged

\* the record of a call of stratified_split_multi_label
SplitCall(texts, test_size, random_state, import_ok, r) ==
  [op |-> "stratified_split_multi_label", n |-> Len(texts),
   test_size |-> test_size, random_state |-> random_state,
   import_ok |-> import_ok, ret |-> r, warnings_before |-> run.warnings]

\* lines 388-390: the hold-out split
SplitHoldout ==
  /\ run.pc = "labels"
  /\ \E r \in stratified_split_multi_label(run.texts, run.labels, HoldoutSize,
                                            RandomState, run.iterstrat) :
       /\ call' = SplitCall(run.texts, HoldoutSize, RandomState, run.iterstrat, r)
       /\ run' = IF r.err = "none"
                   THEN [run EXCEPT !.pc = "holdout",
                                    !.X_train = r.X_train, !.y_train = r.y_train,
                                    !.X_temp = r.X_temp, !.y_temp = r.y_temp,
                                    !.warnings = @ + (IF r.warned THEN 1 ELSE 0)]
                   ELSE [run EXCEPT !.pc = "failed", !.err = r.err,
                                    !.warnings = @ + (IF r.warned THEN 1 ELSE 0)]
  /\ PipelineUnchanged

\* the second split made of the whole dataset instead of the hold-out
SplitValTest_whole ==
  /\ run.pc = "holdout"
  /\ \E r \in stratified_split_multi_label(run.texts, run.labels, ValTestSize,
                                            RandomState, run.iterstrat) :
       /\ call' = SplitCall(run.texts, ValTestSize, RandomState, run.iterstrat, r)
       /\ run' = IF r.err = "none"
                   THEN [run EXCEPT !.pc = "split",
                                    !.X_val = r.X_train, !.y_val = r.y_train,
                                    !.X_test = r.X_temp, !.y_test = r.y_temp,
                                    !.warnings = @ + (IF r.warned THEN 1 ELSE 0)]
                   ELSE [run EXCEPT !.pc = "failed", !.err = r.err,
                                    !.warnings = @ + (IF r.warned THEN 1 ELSE 0)]
  /\ PipelineUnchanged

\* lines 391-393: the hold-out is split into validation and test
SplitValTest ==
  /\ run.pc = "holdout"
  /\ \E r \in stratified_split_multi_label(run.X_temp, run.y_temp, ValTestSize,
                                            RandomState, run.iterstrat) :
       /\ call' = SplitCall(run.X_temp, ValTestSize, RandomState, run.iterstrat, r)
       /\ run' = IF r.err = "none"
                   THEN [run EXCEPT !.pc = "split",
                                    !.X_val = r.X_train, !.y_val = r.y_train,
                                    !.X_test = r.X_temp, !.y_test = r.y_temp,
                                    !.warnings = @ + (IF r.warned THEN 1 ELSE 0)]
                   ELSE [run EXCEPT !.pc = "failed", !.err = r.err,
                                    !.warnings = @ + (IF r.warned THEN 1 ELSE 0)]
  /\ PipelineUnchanged

\* lines 401-408: class_weights = calculate_class_weights(y_train)
ClassWeights ==
  /\ run.pc = "split"
  /\ run' = [run EXCEPT !.pc = "weights",
                        !.class_weights = calculate_class_weights(run.y_train)]
  /\ UNCHANGED call
  /\ PipelineUnchanged

\* lines 410-542: the model is built and trainer.train() trains it
Fit ==
  /\ run.pc = "weights"
  /\ run' = [run EXCEPT !.pc = "trained", !.trained = TRUE]
  /\ UNCHANGED call
  /\ PipelineUnchanged

\* lines 544-603: the thresholds are found and the model, the tokenizer and
\* emotion_info.json are written
Persist ==
  /\ run.pc = "trained"
  /\ run' = [run EXCEPT !.pc = "persisted", !.persisted = TRUE]
  /\ UNCHANGED call
  /\ PipelineUnchanged

\* One run of main() on a dataframe, with iterstrat installed or not.
InitPipeline ==
  /\ fs = [d \in Dirs |-> NoDir]
  /\ _emotion_predictor = NoEngine
  /\ _sentiment_predictor = NoEngine
  /\ constructions = [emotion |-> 0, sentiment |-> 0]
  /\ load_failed = {}
  /\ call = NoCall
  /\ run \in {[NoPipeline EXCEPT !.df = df, !.iterstrat = b] :
                df \in Dataframes, b \in BOOLEAN}
  /\ ldr = NoLoader
  /\ classifier = NoClassifier
  /\ loads = 0

NextPipeline ==
  \/ PrepareLabels
  \/ SplitHoldout
  \/ SplitValTest
  \/ ClassWeights
  \/ Fit
  \/ Persist

SpecPipeline == InitPipeline /\ [][NextPipeline]_vars

\* the labels of the label matrix of the run that have a positive example
LabelsWithPositives ==
  {j \in 1..Len(run.emotion_names) : ColumnSum(run.labels, j) > 0}

\* C13: a run whose label matrix has fewer than two distinct labels with a
\* positive example each never trains and never persists a model.
C13_FailsOnFewLabels ==
  (run.pc # "start" /\ Cardinality(LabelsWithPositives) < 2) =>
    ~run.trained /\ ~run.persisted

\* C14: a run in whose training split some label of the vocabulary has no
\* positive example never trains and never persists a model.
C14_FailsOnLabelWithoutPositives ==
  ( /\ run.pc \in {"holdout", "split", "weights", "trained", "persisted"}
    /\ \E j \in 1..Len(run.emotion_names) : ColumnSum(run.y_train, j) = 0 ) =>
    ~run.trained /\ ~run.persisted

\* C18: a call of stratified_split_multi_label in which the import of
\* iterstrat fails prints the warning (every such call does: the count of
\* warnings grows by one) and returns what train_test_split returns for the
\* test_size and random_state of the call, a split of ceil(test_size * n)
\* held-out examples and the rest; a call in which the import succeeds
\* prints no warning.
C18_FallbackWarns ==
  call.op = "stratified_split_multi_label" =>
    /\ ~call.import_ok =>
         /\ call.ret.used = "train_test_split"
         /\ call.ret.test_size = call.test_size
         /\ call.ret.random_state = call.random_state
         /\ call.ret.warned
         /\ run.warnings = call.warnings_before + 1
         /\ call.ret.err = "none" =>
              /\ Len(call.ret.X_temp) = NTest(call.n, call.test_size)
              /\ Len(call.ret.X_train) = call.n - NTest(call.n, call.test_size)
              /\ Range(call.ret.X_train) \cap Range(call.ret.X_temp) = {}
    /\ call.import_ok =>
         /\ ~call.ret.warned
         /\ run.warnings = call.warnings_before
    /\ (~run.iterstrat /\ run.pc = "split") => run.warnings = 2

\* without iterstrat both split calls of a run have been made, each with
\* its warning, the second for half of the hold-out
C18_Witness ==
  /\ call.op = "stratified_split_multi_label"
  /\ ~call.import_ok
  /\ run.pc = "split"
  /\ run.warnings = 2
  /\ call.test_size = ValTestSize
  /\ call.ret.used = "train_test_split"
  /\ Len(call.ret.X_train) = 1
  /\ Len(run.X_train) = 2

\* --------------------------------------------- trainer.train(): epochs

\* num_train_epochs=20, early_stopping_patience=4, save_total_limit=2
num_train_epochs == 20
early_stopping_patience == 4
save_total_limit == 2

\* the values of eval_f1_macro, in units of 1/MaxF1
F1Values == 0..MaxF1

\* best_metric is None
NoMetric == 0 - 1

Max(a, b) == IF a >= b THEN a ELSE b

\* the weights of the model after an epoch whose evaluation gave f1_macro
CheckpointOf(epoch, f1_macro) ==
  [present |-> TRUE, run |-> 1, num_labels |-> 1, seed |-> 0,
   epoch |-> epoch, f1_macro |-> f1_macro]

\* the model from_pretrained returned, not yet trained
Untrained == CheckpointOf(0, NoMetric)

\* the Trainer before train(): the state of the trainer and its callback,
\* the checkpoint directories on disk, the model it holds; and the
\* evaluations made: the last early_stopping_patience of them in recent,
\* the best of the ones before those in earlier_best
NoTrainer ==
  [id |-> 1, pc |-> "Initialized", emotion_names |-> <<"sadness">>, num_labels |-> 1,
   optimal_thresholds |-> <<>>, weights |-> NoWeights,
   epoch |-> 0, best_metric |-> NoMetric, best_model_checkpoint |-> 0,
   early_stopping_patience_counter |-> 0, should_training_stop |-> FALSE,
   checkpoints |-> {}, model |-> Untrained, optimized_with |-> Untrained,
   recent |-> <<>>, earlier_best |-> NoMetric]

\* is the metric better than best_metric (greater_is_better=True)
IsBetter(metric_value, best_metric) ==
  best_metric = NoMetric \/ metric_value > best_metric

\* the early stopping callback that counts every evaluation
check_metric_value_counting(counter, metric_value, best_metric) == counter + 1

\* EarlyStoppingCallback on an evaluation: the patience counter after it
check_metric_value(counter, metric_value, best_metric) ==
  IF IsBetter(metric_value, best_metric) THEN 0 ELSE counter + 1

\* the place of the checkpoint of an epoch in the order the rotation deletes
\* from: the checkpoints by epoch, the best one moved up to the last place
\* but one
RotationPlace(epochs, best, e) ==
  LET n == Cardinality(epochs)
      place == Cardinality({x \in epochs : x <= e})
      among_others == Cardinality({x \in epochs \ {best} : x <= e})
  IN IF best \notin epochs \/ n < 2 \/ (\A x \in epochs : x <= best) THEN place
     ELSE IF e = best THEN n - 1
     ELSE IF among_others = n - 1 THEN n
     ELSE among_others

\* the checkpoints left on disk by the rotation after a save: all but the
\* first ones of the order, down to save_total_limit
rotate_checkpoints(checkpoints, best) ==
  LET epochs == {c.epoch : c \in checkpoints}
  IN {c \in checkpoints :
        RotationPlace(epochs, best, c.epoch) > Cardinality(epochs) - save_total_limit}

\* trainer.train() begins
TrainBegin ==
  /\ run.pc = "Initialized"
  /\ run' = [run EXCEPT !.pc = "Training"]
  /\ UNCHANGED call
  /\ PipelineUnchanged

\* one epoch of trainer.train(): the model is trained for the epoch and
\* evaluated (f1_macro the eval_f1_macro it gets), the early stopping
\* callback sees the evaluation, the checkpoint is saved, best_metric and
\* best_model_checkpoint are updated, the checkpoints are rotated, and the
\* loop ends if the callback asked for it or the epochs are used up
TrainEpoch(f1_macro) ==
  /\ run.pc = "Training"
  /\ run.epoch < num_train_epochs
  /\ LET epoch == run.epoch + 1
         model == CheckpointOf(epoch, f1_macro)
         counter == check_metric_value(run.early_stopping_patience_counter,
                                       f1_macro, run.best_metric)
         stop == counter >= early_stopping_patience
         better == IsBetter(f1_macro, run.best_metric) \/ run.best_model_checkpoint = 0
         best == IF better THEN epoch ELSE run.best_model_checkpoint
         full == Len(run.recent) = early_stopping_patience
     IN run' = [run EXCEPT
                  !.epoch = epoch,
                  !.model = model,
                  !.early_stopping_patience_counter = counter,
                  !.should_training_stop = stop,
                  !.best_metric = IF better THEN f1_macro ELSE @,
                  !.best_model_checkpoint = best,
                  !.checkpoints = rotate_checkpoints(@ \cup {model}, best),
                  !.recent = (IF full THEN Tail(@) ELSE @) \o <<f1_macro>>,
                  !.earlier_best = IF full THEN Max(@, Head(run.recent)) ELSE @,
                  !.pc = IF stop THEN "EarlyStopped"
                         ELSE IF epoch >= num_train_epochs THEN "EpochBudgetExhausted"
                         ELSE "Training"]
  /\ UNCHANGED call
  /\ PipelineUnchanged

\* the end of train() with load_best_model_at_end=False: the model of the
\* last epoch stays
LoadBest_last ==
  /\ run.pc \in {"EarlyStopped", "EpochBudgetExhausted"}
  /\ run' = [run EXCEPT !.pc = "BestCheckpointSelected"]
  /\ UNCHANGED call
  /\ PipelineUnchanged

\* the end of train() with load_best_model_at_end=True: the checkpoint
\* best_model_checkpoint is loaded if it is on disk
LoadBest ==
  /\ run.pc \in {"EarlyStopped", "EpochBudgetExhausted"}
  /\ run' = [run EXCEPT
               !.pc = "BestCheckpointSelected",
               !.model = IF \E c \in run.checkpoints : c.epoch = run.best_model_checkpoint
                           THEN CHOOSE c \in run.checkpoints :
                                  c.epoch = run.best_model_checkpoint
                           ELSE @]
  /\ UNCHANGED call
  /\ PipelineUnchanged

\* lines 544-550: the thresholds are found from the probabilities of the
\* model the trainer holds on the validation split
FitOptimize(y_val, val_probs) ==
  /\ run.pc = "BestCheckpointSelected"
  /\ LET optimal_thresholds == find_optimal_thresholds(y_val, val_probs, run.emotion_names)
     IN run' = [run EXCEPT !.pc = "optimized",
                           !.optimized_with = run.model,
                           !.weights = run.model,
                           !.optimal_thresholds = optimal_thresholds.thresholds]
  /\ UNCHANGED call
  /\ PipelineUnchanged

\* One run of train_emotion_classifier from the Trainer on.
InitFit ==
  /\ fs = [d \in Dirs |-> NoDir]
  /\ _emotion_predictor = NoEngine
  /\ _sentiment_predictor = NoEngine
  /\ constructions = [emotion |-> 0, sentiment |-> 0]
  /\ load_failed = {}
  /\ call = NoCall
  /\ run = NoTrainer
  /\ ldr = NoLoader
  /\ classifier = NoClassifier
  /\ loads = 0

NextFit ==
  \/ TrainBegin
  \/ \E f1_macro \in F1Values : TrainEpoch(f1_macro)
  \/ LoadBest
  \/ \E y_val \in Matrix({0, 1}, 1, 1), val_probs \in Matrix(ValProbs, 1, 1) :
       FitOptimize(y_val, val_probs)
  \/ MakeDir
  \/ SaveModel
  \/ SaveTokenizer
  \/ WriteInfo

SpecFit == InitFit /\ [][NextFit]_vars

\* the run goes on as long as it has a step to take
SpecFitLive == SpecFit /\ WF_vars(NextFit)

\* ------------------------------------------------- the training loop

\* none of the last early_stopping_patience evaluations was better than the
\* best of the evaluations before them
Stalled ==
  /\ Len(run.recent) = early_stopping_patience
  /\ \A i \in 1..Len(run.recent) : run.recent[i] <= run.earlier_best

\* the states of a training run in their order
PcRank ==
  "Initialized" :> 0 @@ "Training" :> 1 @@ "EarlyStopped" :> 2
  @@ "EpochBudgetExhausted" :> 2 @@ "BestCheckpointSelected" :> 3
  @@ "optimized" :> 4 @@ "dir" :> 5 @@ "model" :> 6 @@ "tokenizer" :> 7
  @@ "done" :> 8

\* a step of the loop goes from Initialized to Training, stays in Training,
\* or leaves it for EarlyStopped or EpochBudgetExhausted, and nothing comes
\* back to Training
LoopOrder ==
  /\ run.pc = "Initialized" => run'.pc \in {"Initialized", "Training"}
  /\ run.pc = "Training" =>
       run'.pc \in {"Training", "EarlyStopped", "EpochBudgetExhausted"}
  /\ PcRank[run.pc] <= PcRank[run'.pc]

\* where the loop stands agrees with the evaluations made
LoopState ==
  /\ run.epoch <= num_train_epochs
  /\ run.pc = "Initialized" => run.epoch = 0
  /\ run.pc = "Training" => run.epoch < num_train_epochs /\ ~Stalled
  /\ run.pc = "EarlyStopped" => Stalled
  /\ run.pc = "EpochBudgetExhausted" => run.epoch = num_train_epochs /\ ~Stalled

MaxOf(S) == CHOOSE x \in S : \A y \in S : y <= x

\* the highest macro-F1 of the evaluations of the run
BestEval == MaxOf({run.earlier_best} \cup Range(run.recent))

\* C16: once a run has ended, by early stopping or after 20 epochs, the
\* model the thresholds are optimized with and the model written to the
\* artifact directory is the checkpoint with the highest validation macro-F1
\* of all evaluations of the run, not the model of the last epoch, while at
\* most two checkpoints are on disk
C16_BestCheckpointUsed ==
  /\ Cardinality(run.checkpoints) <= save_total_limit
  /\ PcRank[run.pc] >= PcRank["BestCheckpointSelected"] =>
       /\ run.model.f1_macro = BestEval
       /\ run.model \in run.checkpoints
  /\ PcRank[run.pc] >= PcRank["optimized"] => run.optimized_with = run.model
  /\ PcRank[run.pc] >= PcRank["model"] =>
       /\ fs[EMOTION_CLASSIFIER_PATH].weights = run.model
       /\ fs[EMOTION_CLASSIFIER_PATH].weights.f1_macro = BestEval

\* C16: the artifact is written from a checkpoint that is not one of the
\* last two epochs
C16_Witness ==
  /\ run.pc = "done"
  /\ run.model.epoch + 1 < run.epoch
  /\ Cardinality(run.checkpoints) = save_total_limit
  /\ fs[EMOTION_CLASSIFIER_PATH].weights = run.model

\* --------------------------------------------- the class weights alone

\* the label matrices of a training split: one column of up to MaxTrainRows
\* rows, or two columns of up to three rows
TrainLabels ==
  UNION {Matrix({0, 1}, n, 1) : n \in 1..MaxTrainRows}
    \cup UNION {Matrix({0, 1}, n, 2) : n \in 1..3}

\* the pipeline after its two splits: any training labels, and a validation
\* and a test example with every label or with none; the texts are left out
AfterSplits ==
  {[NoPipeline EXCEPT !.pc = "split", !.y_train = y_train,
                      !.y_val = <<[j \in 1..Len(y_train[1]) |-> y_val]>>,
                      !.y_test = <<[j \in 1..Len(y_train[1]) |-> y_test]>>] :
     y_train \in TrainLabels, y_val \in {0, 1}, y_test \in {0, 1}}

\* One run from the splits on: the class weights are computed, the model
\* is trained and the artifact written.
InitWeights ==
  /\ fs = [d \in Dirs |-> NoDir]
  /\ _emotion_predictor = NoEngine
  /\ _sentiment_predictor = NoEngine
  /\ constructions = [emotion |-> 0, sentiment |-> 0]
  /\ load_failed = {}
  /\ call = NoCall
  /\ run \in AfterSplits
  /\ ldr = NoLoader
  /\ classifier = NoClassifier
  /\ loads = 0

NextWeights ==
  \/ ClassWeights
  \/ Fit
  \/ Persist

SpecWeights == InitWeights /\ [][NextWeights]_vars

\* the positive training examples of label j
PosCount(j) == Cardinality({r \in 1..Len(run.y_train) : run.y_train[r][j] = 1})

\* C21: the class weights of a run are computed from the labels of the
\* training split alone: there is one weight per label, every weight is
\* more than 0 and at most 10, it is min(neg_count / pos_count, 10) for a
\* label with a positive and a negative training example and 1 for any
\* other label, whatever the validation and the test labels are
C21_ClassWeightsFromTrain ==
  run.pc \in {"weights", "trained", "persisted"} =>
    /\ Len(run.class_weights) = Len(run.y_train[1])
    /\ \A j \in 1..Len(run.class_weights) :
         LET w == run.class_weights[j]
             pos == PosCount(j)
             neg == Len(run.y_train) - pos
         IN /\ w[1] > 0 /\ w[2] > 0 /\ w[1] <= 10 * w[2]
            /\ IF pos = 0 \/ neg = 0 THEN w[1] = w[2]
               ELSE IF neg <= 10 * pos THEN w[1] * pos = neg * w[2]
               ELSE w[1] = 10 * w[2]

\* C21: a label with one positive among twelve training examples has the
\* weight 10, while the validation and the test examples are positive
C21_Witness ==
  /\ run.pc = "weights"
  /\ Len(run.y_train) = 12
  /\ PosCount(1) = 1
  /\ run.class_weights = <<<<10, 1>>>>
  /\ run.y_val = <<<<1>>>>
  /\ run.y_test = <<<<1>>>>

\* ------------------------------------------ the threshold of one label

\* the F1 of label i of the recorded call at grid index k
GridF1(i, k) ==
  f1_score(Column(call.labels, i), Preds(Column(call.probs, i), GridPoint(k)))

\* C22: the threshold find_optimal_thresholds returns for label j is decided
\* by column j of the validation labels and probabilities alone: it is the
\* smallest of the 100 grid values from 0.01 to 0.99 with the highest F1 of
\* the grid when that F1 is more than 0, and 0.5 when no grid value has an
\* F1 above 0
C22_SmallestBestGridPoint ==
  (call.op = "find_optimal_thresholds" /\ call.err = "none") =>
    \A i \in 1..Len(call.thresholds) :
      IF \A k \in 0..(GridSize - 1) : GridF1(i, k)[1] = 0
        THEN call.thresholds[i] = DefaultThreshold
        ELSE \E k \in 0..(GridSize - 1) :
               /\ call.thresholds[i] = GridPoint(k)
               /\ GridPoint(0) = ONE \div 100
               /\ GridPoint(GridSize - 1) = 99 * (ONE \div 100)
               /\ \A l \in 0..(GridSize - 1) : FracGeq(GridF1(i, k), GridF1(i, l))
               /\ \A l \in 0..(k - 1) : FracGreater(GridF1(i, k), GridF1(i, l))

\* C22: of two labels, the first has its best F1 at a grid value that is
\* not the smallest one, and the second, without a positive validation
\* example, keeps 0.5
C22_Witness ==
  /\ call.op = "find_optimal_thresholds"
  /\ Len(call.thresholds) = 2
  /\ call.thresholds[1] > GridPoint(0)
  /\ call.thresholds[1] # DefaultThreshold
  /\ GridF1(1, 0)[1] > 0
  /\ \A r \in 1..Len(call.labels) : call.labels[r][2] = 0
  /\ call.thresholds[2] = DefaultThreshold

\* ------------------------------------ the evaluation on the test split

\* the test split of a run: one example, with every label or with none
TestLabels == {<<[j \in 1..n |-> b]>> : n \in 1..MaxLabels, b \in {0, 1}}

\* the sigmoid outputs of the trained model on the test example
TestProbs(n) == {<<[j \in 1..n |-> p]>> : p \in ValProbs}

\* a run before training, its test split set aside (lines 388-393)
NoEvalRun(y_test) ==
  [id |-> 0, pc |-> "idle", emotion_names |-> <<>>, num_labels |-> 0,
   optimal_thresholds |-> <<>>, weights |-> NoWeights,
   y_test |-> y_test, test_probs |-> <<>>, y_pred_optimized |-> <<>>]

\* lines 394-550: the model is trained and the thresholds are found on the
\* validation split
OptimizeOnValidation(emotion_names, y_val, val_probs, sd) ==
  /\ run.pc = "idle"
  /\ Len(emotion_names) = Len(run.y_test[1])
  /\ LET optimal_thresholds == find_optimal_thresholds(y_val, val_probs, emotion_names)
     IN /\ optimal_thresholds.err = "none"
        /\ run' = [run EXCEPT !.id = 1,
                              !.pc = "found",
                              !.emotion_names = emotion_names,
                              !.num_labels = Len(emotion_names),
                              !.optimal_thresholds = optimal_thresholds.thresholds,
                              !.weights = WeightsOf(1, Len(emotion_names), sd)]
  /\ call' = OptimizeCall(emotion_names, y_val, val_probs)
  /\ PipelineUnchanged

\* (test_probs >= optimal_thresholds).astype(float)
PredsOptimized(test_probs, optimal_thresholds) ==
  [r \in 1..Len(test_probs) |->
     [j \in 1..Len(optimal_thresholds) |->
        IF test_probs[r][j] >= optimal_thresholds[j] THEN 1 ELSE 0]]

\* an evaluation that searches the thresholds again, on the test split
EvaluateTest_retuned(test_probs) ==
  /\ run.pc = "found"
  /\ LET retuned == find_optimal_thresholds(run.y_test, test_probs,
                                             run.emotion_names).thresholds
     IN run' = [run EXCEPT !.pc = "optimized",
                           !.test_probs = test_probs,
                           !.optimal_thresholds = retuned,
                           !.y_pred_optimized = PredsOptimized(test_probs, retuned)]
  /\ UNCHANGED call
  /\ PipelineUnchanged

\* lines 552-587: the test split is predicted, the thresholds are applied
\* to its probabilities and the metrics are reported
EvaluateTest(test_probs) ==
  /\ run.pc = "found"
  /\ run' = [run EXCEPT !.pc = "optimized",
                        !.test_probs = test_probs,
                        !.y_pred_optimized =
                          PredsOptimized(test_probs, run.optimal_thresholds)]
  /\ UNCHANGED call
  /\ PipelineUnchanged

\* One run of train_emotion_classifier with its test split.
InitEval ==
  /\ fs = [d \in Dirs |-> NoDir]
  /\ _emotion_predictor = NoEngine
  /\ _sentiment_predictor = NoEngine
  /\ constructions = [emotion |-> 0, sentiment |-> 0]
  /\ load_failed = {}
  /\ call = NoCall
  /\ run \in {NoEvalRun(y_test) : y_test \in TestLabels}
  /\ ldr = NoLoader
  /\ classifier = NoClassifier
  /\ loads = 0

NextEval ==
  \/ /\ run.pc = "idle"
     /\ \E names \in NameLists :
          \E m \in 1..MaxTrainVal :
            \E y_val \in Matrix({0, 1}, m, Len(names)),
               val_probs \in Matrix(ValProbs, m, Len(names)),
               sd \in TrainSeeds :
              OptimizeOnValidation(names, y_val, val_probs, sd)
  \/ /\ run.pc = "found"
     /\ \E test_probs \in TestProbs(run.num_labels) : EvaluateTest(test_probs)
  \/ MakeDir
  \/ SaveModel
  \/ SaveTokenizer
  \/ WriteInfo

SpecEval == InitEval /\ [][NextEval]_vars

\* the smallest grid value with the highest F1 on a column of labels y and
\* probabilities p, 0.5 if no grid value has an F1 above 0
SmallestBest(y, p) ==
  LET F1s == [k \in 0..(GridSize - 1) |-> f1_score(y, Preds(p, GridPoint(k)))]
      F == IF F1s = F1s THEN F1s ELSE F1s
  IN IF \A k \in 0..(GridSize - 1) : F[k][1] = 0 THEN DefaultThreshold
     ELSE GridPoint(CHOOSE k \in 0..(GridSize - 1) :
                      /\ \A l \in 0..(GridSize - 1) : FracGeq(F[k], F[l])
                      /\ \A l \in 0..(k - 1) : FracGreater(F[k], F[l]))

\* SmallestBest for every column of a validation split, worked out once
SmallestBestOf ==
  LET table == [c \in UNION {SeqsOfLen({0, 1}, m) \X SeqsOfLen(ValProbs, m) :
                               m \in 1..MaxVal} |->
                  SmallestBest(c[1], c[2])]
  IN IF table = table THEN table ELSE table

\* the thresholds the validation split of the recorded search decides
FromValidation ==
  [i \in 1..Len(call.names) |->
     SmallestBestOf[<<Column(call.labels, i), Column(call.probs, i)>>]]

\* C23: the thresholds a run finds, applies to the test split and writes
\* are decided by its validation split alone: whatever the test split
\* holds, they are the thresholds the validation labels and probabilities
\* give, the test split is only predicted with them afterwards, and the
\* metadata file holds them unchanged
C23_ThresholdsFromValidationOnly ==
  /\ run.pc # "idle" =>
       /\ call.op = "find_optimal_thresholds"
       /\ run.optimal_thresholds = FromValidation
  /\ run.pc = "found" => run.test_probs = <<>> /\ run.y_pred_optimized = <<>>
  /\ run.pc \notin {"idle", "found"} =>
       /\ Len(run.y_pred_optimized) = Len(run.y_test)
       /\ \A r \in 1..Len(run.y_test) : \A j \in 1..run.num_labels :
            run.y_pred_optimized[r][j] = 1 <=>
              run.test_probs[r][j] >= FromValidation[j]
  /\ InfoWritten.present =>
       Get(InfoWritten.json, "optimal_thresholds") = FromValidation

\* C23: a run has written thresholds that differ from the ones a search on
\* its test split would have given
C23_Witness ==
  /\ InfoWritten.present
  /\ run.num_labels = 2
  /\ run.y_test = <<<<1, 1>>>>
  /\ Get(InfoWritten.json, "optimal_thresholds") = run.optimal_thresholds
  /\ \E j \in 1..run.num_labels :
       run.optimal_thresholds[j] #
         SmallestBest(Column(run.y_test, j), Column(run.test_probs, j))

\* ------------------------------------------------- the splits alone

\* the label row of example i of a dataset of four labels: the binary
\* digits of i, so that every example has a label row of its own
OwnLabels(i) == <<i % 2, (i \div 2) % 2, (i \div 4) % 2, (i \div 8) % 2>>

\* the pipeline after prepare_emotion_labels on a dataset of n examples,
\* the texts by row number
Labelled(n, iterstrat) ==
  [NoPipeline EXCEPT !.pc = "labels", !.iterstrat = iterstrat,
                     !.texts = [i \in 1..n |-> i],
                     !.labels = [i \in 1..n |-> OwnLabels(i)],
                     !.emotion_names = <<"sadness", "fear", "anger", "guilt">>]

\* One run from the label matrix on, with iterstrat installed or not.
InitSplit ==
  /\ fs = [d \in Dirs |-> NoDir]
  /\ _emotion_predictor = NoEngine
  /\ _sentiment_predictor = NoEngine
  /\ constructions = [emotion |-> 0, sentiment |-> 0]
  /\ load_failed = {}
  /\ call = NoCall
  /\ run \in {Labelled(n, b) : n \in 1..MaxSplitRows, b \in BOOLEAN}
  /\ ldr = NoLoader
  /\ classifier = NoClassifier
  /\ loads = 0

NextSplit ==
  \/ SplitHoldout
  \/ SplitValTest
  \/ ClassWeights
  \/ Fit
  \/ Persist

SpecSplit == InitSplit /\ [][NextSplit]_vars

\* every example of a part has the label row the dataset gives it
OwnRows(X, y) ==
  /\ Len(X) = Len(y)
  /\ \A k \in 1..Len(X) : y[k] = run.labels[X[k]]

C25_EveryFailureFallsBack ==
  call.op = "stratified_split_multi_label" =>
    ~(call.ret.used = "MultilabelStratifiedShuffleSplit" /\ call.ret.err # "none")

\* ------------------------------ EmotionClassifier.predict_emotions

\* the artifact directories a finished training run leaves: weights, the
\* tokenizer, and emotion_info.json with one threshold for every name
ClassifierRuns ==
  {[id |-> 1, pc |-> "done", emotion_names |-> names, num_labels |-> Len(names),
    optimal_thresholds |-> t, weights |-> w] :
     names \in NameLists, t \in ThreshLists, w \in WeightsFor}

TrainedDir(r) ==
  [exists |-> TRUE, weights |-> r.weights, tokenizer |-> TokenizerOf(r.id),
   files |-> [f \in FileNames |->
                IF f = "emotion_info.json" THEN InfoFile(r) ELSE NoFile]]

\* predict_emotions(texts, use_thresholds=..., preprocess=...) for one text:
\* the text is preprocessed if asked, the model gives the probabilities,
\* and the scores are the pairs of zip(self.emotion_names, probs_row),
\* built by the same expression whether the thresholds are to be used or not
predict_emotions(text, use_thresholds, preprocess) ==
  /\ classifier.loaded
  /\ call.op = "none"
  /\ LET tokIn == IF preprocess THEN preprocess_text(text) ELSE text.chars
         probs_row == Forward(classifier.weights, tokIn)
         zipped == Min(Len(classifier.emotion_names), Len(probs_row))
         emotion_scores ==
           IF use_thresholds /\ Len(classifier.optimal_thresholds) = Len(probs_row)
             THEN [i \in 1..zipped |-> Pair(classifier.emotion_names[i], probs_row[i])]
             ELSE [i \in 1..zipped |-> Pair(classifier.emotion_names[i], probs_row[i])]
     IN call' = [op |-> "predict_emotions", text |-> text,
                 use_thresholds |-> use_thresholds, preprocess |-> preprocess,
                 tokIn |-> tokIn, probs |-> probs_row, list |-> emotion_scores]
  /\ UNCHANGED <<fs, _emotion_predictor, _sentiment_predictor, constructions,
                 load_failed, run, ldr, classifier, loads>>

\* An EmotionClassifier is constructed on the artifact of a finished run
\* and asked for the emotions of a text.
InitClassifier ==
  /\ \E r \in ClassifierRuns :
       /\ r.weights.num_labels = r.num_labels
       /\ Len(r.optimal_thresholds) = r.num_labels
       /\ run = r
       /\ fs = [d \in Dirs |-> IF d = EMOTION_CLASSIFIER_PATH THEN TrainedDir(r) ELSE NoDir]
  /\ _emotion_predictor = NoEngine
  /\ _sentiment_predictor = NoEngine
  /\ constructions = [emotion |-> 0, sentiment |-> 0]
  /\ load_failed = {}
  /\ call = NoCall
  /\ ldr = NoLoader
  /\ classifier = NoClassifier
  /\ loads = 0

NextClassifier ==
  \/ LoadStart
  \/ LoadTokenizer
  \/ LoadModel
  \/ LoadInfo
  \/ /\ classifier.loaded
     /\ \E text \in PredictTexts \ {NoneVal}, use_thresholds \in BOOLEAN,
           preprocess \in BOOLEAN :
          predict_emotions(text, use_thresholds, preprocess)

SpecClassifier == InitClassifier /\ [][NextClassifier]_vars

\* C26: when predict_emotions is called with use_thresholds true and the
\* classifier holds one threshold for every output of the model, the
\* stored thresholds are used: the score of every emotion is the binary
\* prediction 1 or 0 (the probability against the threshold of the
\* emotion), not the raw probability a call with use_thresholds false
\* returns
C26_ThresholdsApplied ==
  ( /\ call.op = "predict_emotions"
    /\ call.use_thresholds
    /\ Len(classifier.optimal_thresholds) = Len(call.probs) ) =>
    \A i \in 1..Len(call.list) :
      /\ call.list[i].val =
           (IF call.probs[i] >= classifier.optimal_thresholds[i] THEN ONE ELSE 0)
      /\ call.list[i].val # call.probs[i]

\* ------------------------- get_emotion_predictor from request threads

Threads == 1..MaxThreads

\* a thread that has not called get_emotion_predictor yet
NoThreadCall == [op |-> "get_emotion_predictor", pc |-> "idle", err |-> "none", ret |-> 0]

\* `if _emotion_predictor is None:` read by thread t
ThreadTest(t) ==
  /\ call[t].pc = "idle"
  /\ call' = [call EXCEPT ![t].pc = IF _emotion_predictor.loaded
                                       THEN "return" ELSE "construct"]
  /\ UNCHANGED <<fs, _emotion_predictor, _sentiment_predictor, constructions,
                 load_failed, run, ldr, classifier, loads>>

\* the try statement run by thread t: EmotionPredictor() is constructed
\* and assigned to the global, or the handler assigns None to it
ThreadConstruct(t) ==
  /\ call[t].pc = "construct"
  /\ LET r == EmotionPredictor_init(fs[EMOTION_MODEL_PATH], constructions.emotion + 1)
     IN /\ _emotion_predictor' = r.engine
        /\ constructions' =
             IF r.err = "none"
               THEN [constructions EXCEPT !.emotion = @ + 1]
               ELSE constructions
        /\ load_failed' =
             IF r.err = "none" THEN load_failed ELSE load_failed \cup {"emotion"}
        /\ call' = [call EXCEPT ![t].pc = "return", ![t].err = r.err]
  /\ UNCHANGED <<fs, _sentiment_predictor, run, ldr, classifier, loads>>

\* `return _emotion_predictor` by thread t
ThreadReturn(t) ==
  /\ call[t].pc = "return"
  /\ call' = [call EXCEPT ![t].pc = "done", ![t].ret = _emotion_predictor.id]
  /\ UNCHANGED <<fs, _emotion_predictor, _sentiment_predictor, constructions,
                 load_failed, run, ldr, classifier, loads>>

\* A process whose request threads make their first calls of
\* get_emotion_predictor, on whatever is at EMOTION_MODEL_PATH.
InitThreads ==
  /\ fs \in {[d \in Dirs |-> IF d = EMOTION_MODEL_PATH THEN b ELSE NoDir] :
               b \in BackendDirs}
  /\ _emotion_predictor = NoEngine
  /\ _sentiment_predictor = NoEngine
  /\ constructions = [emotion |-> 0, sentiment |-> 0]
  /\ load_failed = {}
  /\ call = [t \in Threads |-> NoThreadCall]
  /\ run = NoRun
  /\ ldr = NoLoader
  /\ classifier = NoClassifier
  /\ loads = 0

NextThreads ==
  \E t \in Threads :
    \/ ThreadTest(t)
    \/ ThreadConstruct(t)
    \/ ThreadReturn(t)

SpecThreads == InitThreads /\ [][NextThreads]_vars

\* C27: when several request threads make first calls of
\* get_emotion_predictor at the same time the model is loaded once: at
\* most one EmotionPredictor is constructed in the process, and all calls
\* that return an engine return the same instance
C27_LoadedOnceUnderThreads ==
  /\ constructions.emotion <= 1
  /\ \A t, u \in Threads :
       ( /\ call[t].pc = "done" /\ call[t].ret # 0
         /\ call[u].pc = "done" /\ call[u].ret # 0 ) => call[t].ret = call[u].ret

\* ------------------------------------------- backend: analyze_journal

\* the journal entries of at most MaxJournalFrags fragments
MaxJournalFrags == 2
\* The fragments journal texts are made of.
JournalFragments ==
  { <<"s", "u", "i", "c", "i", "d", "e">>,
    <<"p", "a", "n", "i", "c">>,
    <<"h", "o", "p", "e", "l", "e", "s", "s">>,
    <<"a", "l", "o", "n", "e">>,
    <<"h", "a", "p", "p", "y", " ">>,
    <<"s", "a", "d", " ">>,
    <<"V", "E", "R", "Y", " ", "S", "O", " ", "T", "O", "O", "!">>,
    <<"o", "k">> }
RECURSIVE JournalConcats(_)
JournalConcats(n) ==
  IF n = 0 THEN {<<>>}
  ELSE JournalConcats(n - 1) \cup
       {a \o f : a \in JournalConcats(n - 1), f \in JournalFragments}

JournalTexts == JournalConcats(MaxJournalFrags)

UpperCase == <<"A", "B", "C", "D", "E", "F", "G", "H", "I", "J", "K", "L", "M", "N", "O", "P", "Q", "R", "S", "T", "U", "V", "W", "X", "Y", "Z">>

LowerCase == <<"a", "b", "c", "d", "e", "f", "g", "h", "i", "j", "k", "l", "m", "n", "o", "p", "q", "r", "s", "t", "u", "v", "w", "x", "y", "z">>

\* c.isupper()
IsUpper(c) == \E i \in 1..Len(UpperCase) : UpperCase[i] = c

\* text.lower()
LowerStr(s) ==
  [i \in 1..Len(s) |->
     IF IsUpper(s[i])
       THEN LowerCase[CHOOSE k \in 1..Len(UpperCase) : UpperCase[k] = s[i]]
       ELSE s[i]]

\* sub in s
Contains(s, sub) ==
  \E i \in 1..(Len(s) - Len(sub) + 1) : SubSeq(s, i, i + Len(sub) - 1) = sub

\* sum(1 for word in words if word in s)
CountIn(words, s) == Cardinality({w \in words : Contains(s, w)})

positive_words ==
  { <<"h", "a", "p", "p", "y">>,
    <<"j", "o", "y">>,
    <<"e", "x", "c", "i", "t", "e", "d">>,
    <<"g", "r", "a", "t", "e", "f", "u", "l">>,
    <<"t", "h", "a", "n", "k", "f", "u", "l">>,
    <<"g", "o", "o", "d">>,
    <<"g", "r", "e", "a", "t">>,
    <<"w", "o", "n", "d", "e", "r", "f", "u", "l">>,
    <<"a", "m", "a", "z", "i", "n", "g">>,
    <<"l", "o", "v", "e">>,
    <<"p", "e", "a", "c", "e">>,
    <<"c", "a", "l", "m">>,
    <<"r", "e", "l", "i", "e", "f">>,
    <<"h", "o", "p", "e">>,
    <<"b", "e", "t", "t", "e", "r">>,
    <<"i", "m", "p", "r", "o", "v", "i", "n", "g">> }

negative_words ==
  { <<"s", "a", "d">>,
    <<"d", "e", "p", "r", "e", "s", "s", "e", "d">>,
    <<"a", "n", "x", "i", "o", "u", "s">>,
    <<"w", "o", "r", "r", "i", "e", "d">>,
    <<"f", "e", "a", "r">>,
    <<"a", "n", "g", "r", "y">>,
    <<"f", "r", "u", "s", "t", "r", "a", "t", "e", "d">>,
    <<"l", "o", "n", "e", "l", "y">>,
    <<"h", "o", "p", "e", "l", "e", "s", "s">>,
    <<"t", "i", "r", "e", "d">>,
    <<"e", "x", "h", "a", "u", "s", "t", "e", "d">>,
    <<"p", "a", "i", "n">>,
    <<"h", "u", "r", "t">>,
    <<"s", "c", "a", "r", "e", "d">>,
    <<"t", "e", "r", "r", "i", "f", "i", "e", "d">>,
    <<"p", "a", "n", "i", "c">>,
    <<"o", "v", "e", "r", "w", "h", "e", "l", "m", "e", "d">> }

intensifiers ==
  { <<"v", "e", "r", "y">>,
    <<"e", "x", "t", "r", "e", "m", "e", "l", "y">>,
    <<"i", "n", "c", "r", "e", "d", "i", "b", "l", "y">>,
    <<"a", "b", "s", "o", "l", "u", "t", "e", "l", "y">>,
    <<"c", "o", "m", "p", "l", "e", "t", "e", "l", "y">>,
    <<"t", "o", "t", "a", "l", "l", "y">>,
    <<"r", "e", "a", "l", "l", "y">>,
    <<"s", "o">>,
    <<"t", "o", "o">> }

\* the phrases each risk flag looks for in the lowered text
RiskPhrases ==
  [ self_harm |->
      { <<"k", "i", "l", "l", " ", "m", "y", "s", "e", "l", "f">>,
        <<"e", "n", "d", " ", "i", "t">>,
        <<"n", "o", "t", " ", "w", "o", "r", "t", "h", " ", "l", "i", "v", "i", "n", "g">>,
        <<"s", "u", "i", "c", "i", "d", "e">>,
        <<"c", "u", "t", " ", "m", "y", "s", "e", "l", "f">>,
        <<"h", "u", "r", "t", " ", "m", "y", "s", "e", "l", "f">> },
    panic |->
      { <<"p", "a", "n", "i", "c">>,
        <<"p", "a", "n", "i", "c", " ", "a", "t", "t", "a", "c", "k">>,
        <<"c", "a", "n", "'", "t", " ", "b", "r", "e", "a", "t", "h", "e">>,
        <<"h", "e", "a", "r", "t", " ", "r", "a", "c", "i", "n", "g">> },
    severe_depression |->
      { <<"h", "o", "p", "e", "l", "e", "s", "s">>,
        <<"n", "o", " ", "p", "o", "i", "n", "t">>,
        <<"n", "o", "t", "h", "i", "n", "g", " ", "m", "a", "t", "t", "e", "r", "s">>,
        <<"g", "i", "v", "e", " ", "u", "p">> },
    isolation |->
      { <<"a", "l", "o", "n", "e">>,
        <<"n", "o", " ", "o", "n", "e">>,
        <<"n", "o", "b", "o", "d", "y", " ", "c", "a", "r", "e", "s">>,
        <<"i", "s", "o", "l", "a", "t", "e", "d">> } ]

\* the emotion each risk flag looks for in the detected emotions
RiskEmotions ==
  [ self_harm |-> {E_suicide_intent_alias},
    panic |-> {E_fear},
    severe_depression |-> {E_hopelessness, E_emptiness, E_worthlessness},
    isolation |-> {E_loneliness} ]

RiskFlagNames == {"self_harm", "panic", "severe_depression", "isolation"}

\* the classes of the sentiment model's label encoder
SentimentClasses == <<"negative", "neutral", "positive">>

\* softmax outputs of the predicted class, in hundredths: 0.4 and 0.9
ConfidenceVals == <<40, 90>>

\* SentimentPredictor.predict(text): the network is opaque, a
\* deterministic function of its weights and of the string it is given
SentimentPredictor_predict(w, text) ==
  [label |-> SentimentClasses[((w.seed + Len(text)) % Len(SentimentClasses)) + 1],
   confidence |->
     ConfidenceVals[(((w.seed \div Len(SentimentClasses)) + Len(text))
                       % Len(ConfidenceVals)) + 1]]

\* the emotion vocabularies of the journal backend's deployments
JournalVocabularies ==
  { <<E_suicide_intent, E_fear>>,
    <<E_suicide_intent_alias, E_loneliness>>,
    <<E_hopelessness, E_sadness>> }

JournalEmotionDirs ==
  {NoDir}
  \cup {[exists |-> TRUE, weights |-> WeightsOf(1, 2, sd), tokenizer |-> TokenizerOf(1),
         files |-> [f \in FileNames |->
                      IF f = "emotion_config.json"
                        THEN FileOf(<<Pair("emotions", e),
                                      Pair("thresholds", <<P5(40000), P5(60000)>>)>>)
                        ELSE NoFile]] :
          e \in JournalVocabularies, sd \in 0..(NumProbVals - 1)}

JournalSentimentDirs ==
  {NoDir}
  \cup {[exists |-> TRUE, weights |-> WeightsOf(1, 3, sd), tokenizer |-> TokenizerOf(1),
         files |-> [f \in FileNames |->
                      IF f = LABEL_ENCODER_PATH THEN FileOf(<<>>) ELSE NoFile]] :
          sd \in 0..(Len(SentimentClasses) * Len(ConfidenceVals) - 1)}

\* the sentiment scores, in hundredths, of the entries of the last 7 days
JournalHistories == {<<>>, <<50, 50>>, <<50, 50, 50>>, <<-90, -90, -90>>}

RECURSIVE SumSeq(_)
SumSeq(s) == IF s = <<>> THEN 0 ELSE s[1] + SumSeq(Tail(s))

\* the sentiment score of the ML path, as a fraction of hundredths
ModelScore(label, confidence) ==
  IF label = "positive" THEN <<50 + confidence \div 2, 100>>
  ELSE IF label = "negative" THEN <<0 - 50 - confidence \div 2, 100>>
  ELSE <<((confidence - 50) * 2) \div 5, 100>>

\* the rule-based sentiment score, as a fraction in [-1, 1]
RuleScore(text_lower) ==
  LET positive_count == CountIn(positive_words, text_lower)
      negative_count == CountIn(negative_words, text_lower)
      total_sentiment_words == positive_count + negative_count
  IN IF total_sentiment_words > 0
       THEN <<positive_count - negative_count, total_sentiment_words>>
       ELSE <<0, 1>>

RuleLabel(score) ==
  IF score[1] * 5 > score[2] THEN "positive"
  ELSE IF score[1] * 5 < 0 - score[2] THEN "negative"
  ELSE "neutral"

\* min(1.0, max(0.0, intensity_count * 0.1 + exclamation_count * 0.05
\*                   + caps_ratio * 0.3)), as a fraction
IntensityScore(text) ==
  LET intensity_count == CountIn(intensifiers, LowerStr(text))
      exclamation_count == Cardinality({i \in 1..Len(text) : text[i] = "!"})
      caps == Cardinality({i \in 1..Len(text) : IsUpper(text[i])})
      len == IF Len(text) > 1 THEN Len(text) ELSE 1
      num == (10 * intensity_count + 5 * exclamation_count) * len + 30 * caps
  IN <<IF num > 100 * len THEN 100 * len ELSE num, 100 * len>>

\* one entry of risk_flags
RiskFlag(flag, text_lower, detected_emotions) ==
  \/ \E p \in RiskPhrases[flag] : Contains(text_lower, p)
  \/ \E i \in 1..Len(detected_emotions) :
       detected_emotions[i].emotion \in RiskEmotions[flag]

\* recent_negative_trend
NegativeTrend(score, last_7_days_entries) ==
  /\ Len(last_7_days_entries) >= 3
  /\ score[1] * 100 * Len(last_7_days_entries)
       < score[2] * (SumSeq(last_7_days_entries) - 30 * Len(last_7_days_entries))

\* analyze_journal(text, last_7_days_entries), with the two lazy getters
\* it calls.  key_themes and ai_summary, which nothing else depends on, are
\* left out of the result.
analyze_journal(text, last_7_days_entries) ==
  LET text_lower == LowerStr(text)
      sr == SentimentPredictor_init(fs[SENTIMENT_MODEL_PATH], constructions.sentiment + 1)
      er == EmotionPredictor_init(fs[EMOTION_MODEL_PATH], constructions.emotion + 1)
      sentiment_predictor ==
        IF _sentiment_predictor.loaded THEN _sentiment_predictor ELSE sr.engine
      emotion_predictor ==
        IF _emotion_predictor.loaded THEN _emotion_predictor ELSE er.engine
      sp == SentimentPredictor_predict(sentiment_predictor.weights, text)
      use_emotion ==
        sentiment_predictor.loaded /\ sp.label = "negative" /\ emotion_predictor.loaded
      emotion_results ==
        IF use_emotion
          THEN EmotionPredictor_predict(emotion_predictor, StrVal(text), FALSE)
          ELSE [err |-> "not called", list |-> <<>>]
      detected_emotions ==
        IF emotion_results.err = "none" THEN emotion_results.list ELSE <<>>
      sentiment_score ==
        IF sentiment_predictor.loaded
          THEN ModelScore(sp.label, sp.confidence)
          ELSE RuleScore(text_lower)
      sentiment_label ==
        IF sentiment_predictor.loaded THEN sp.label ELSE RuleLabel(sentiment_score)
      intensity_score == IntensityScore(text)
      risk_flags ==
        [f \in RiskFlagNames |-> RiskFlag(f, text_lower, detected_emotions)]
      recent_negative_trend == NegativeTrend(sentiment_score, last_7_days_entries)
      suggest_start_chat ==
        \/ \E f \in RiskFlagNames : risk_flags[f]
        \/ /\ sentiment_score[1] * 2 < 0 - sentiment_score[2]
           /\ intensity_score[1] * 2 > intensity_score[2]
        \/ recent_negative_trend
  IN /\ _sentiment_predictor' = sentiment_predictor
     /\ _emotion_predictor' = emotion_predictor
     /\ constructions' =
          [emotion |-> IF ~_emotion_predictor.loaded /\ er.err = "none"
                         THEN constructions.emotion + 1 ELSE constructions.emotion,
           sentiment |-> IF ~_sentiment_predictor.loaded /\ sr.err = "none"
                           THEN constructions.sentiment + 1
                           ELSE constructions.sentiment]
     /\ load_failed' =
          load_failed
          \cup (IF ~_emotion_predictor.loaded /\ er.err # "none"
                  THEN {"emotion"} ELSE {})
          \cup (IF ~_sentiment_predictor.loaded /\ sr.err # "none"
                  THEN {"sentiment"} ELSE {})
     /\ call' = [op |-> "analyze_journal",
                 text |-> text,
                 emotion_results |-> emotion_results,
                 sentiment_score |-> sentiment_score,
                 sentiment_label |-> sentiment_label,
                 intensity_score |-> intensity_score,
                 detected_emotions |-> detected_emotions,
                 risk_flags |-> risk_flags,
                 suggest_start_chat |-> suggest_start_chat]
     /\ UNCHANGED <<fs, run, ldr, classifier, loads>>

\* "the response has been sent": the request is over
JournalDone ==
  /\ call' = NoCall
  /\ UNCHANGED <<fs, _emotion_predictor, _sentiment_predictor, constructions,
                 load_failed, run, ldr, classifier, loads>>

\* The journal backend with whatever is deployed at the two model paths.
InitJournal ==
  /\ fs \in {[d \in Dirs |->
                IF d = EMOTION_MODEL_PATH THEN b
                ELSE IF d = SENTIMENT_MODEL_PATH THEN sd ELSE NoDir] :
               b \in JournalEmotionDirs, sd \in JournalSentimentDirs}
  /\ Idle

NextJournal ==
  \/ /\ call.op = "none"
     /\ \E text \in JournalTexts, h \in JournalHistories : analyze_journal(text, h)
  \/ /\ call.op = "analyze_journal"
     /\ JournalDone

SpecJournal == InitJournal /\ [][NextJournal]_vars

\* C28: whenever the emotion predictor's result for the journal text
\* contains the label spelt "suicide_intent", analyze_journal returns
\* risk_flags['self_harm'] true, and whenever any risk flag is true it
\* returns suggest_start_chat true
C28_SuicideIntentFlagged ==
  call.op = "analyze_journal" =>
    /\ ( /\ call.emotion_results.err = "none"
         /\ \E i \in 1..Len(call.emotion_results.list) :
              call.emotion_results.list[i].emotion = E_suicide_intent )
       => call.risk_flags["self_harm"]
    /\ (\E f \in RiskFlagNames : call.risk_flags[f]) => call.suggest_start_chat

\* ------------------------------------- utils/ai_service.py: key rotation

\* the API keys configured in the environment, at most
MaxKeys == 3

\* the global ai_service, with the keys numbered from 0
AiService(n, i) == [api_keys |-> n, current_key_index |-> i]

\* a thread that is not inside _make_request
NoRequest ==
  [op |-> "_make_request", pc |-> "idle", attempt |-> 0, key |-> 0, index |-> 0,
   tried |-> <<>>, ret |-> "none"]

\* a request thread enters _make_request
RequestBegin(t) ==
  /\ call[t].pc = "idle"
  /\ call' = [call EXCEPT ![t].pc = "loop"]
  /\ UNCHANGED <<fs, _emotion_predictor, _sentiment_predictor, constructions,
                 load_failed, run, ldr, classifier, loads>>

\* `for attempt in range(len(self.api_keys))`: the next iteration, or
\* `return None` when the range is used up
LoopTest(t) ==
  /\ call[t].pc = "loop"
  /\ call' =
       IF call[t].attempt < run.api_keys
         THEN [call EXCEPT ![t].pc = "key"]
         ELSE [call EXCEPT ![t].pc = "done", ![t].ret = "None"]
  /\ UNCHANGED <<fs, _emotion_predictor, _sentiment_predictor, constructions,
                 load_failed, run, ldr, classifier, loads>>

\* _get_next_key: key = self.api_keys[self.current_key_index]
KeyRead(t) ==
  /\ call[t].pc = "key"
  /\ call' = [call EXCEPT ![t].pc = "load", ![t].key = run.current_key_index]
  /\ UNCHANGED <<fs, _emotion_predictor, _sentiment_predictor, constructions,
                 load_failed, run, ldr, classifier, loads>>

\* _get_next_key: the read of self.current_key_index in the assignment
IndexLoad(t) ==
  /\ call[t].pc = "load"
  /\ call' = [call EXCEPT ![t].pc = "store", ![t].index = run.current_key_index]
  /\ UNCHANGED <<fs, _emotion_predictor, _sentiment_predictor, constructions,
                 load_failed, run, ldr, classifier, loads>>

\* _get_next_key: self.current_key_index = (... + 1) % len(self.api_keys)
IndexStore(t) ==
  /\ call[t].pc = "store"
  /\ run' = [run EXCEPT !.current_key_index = (call[t].index + 1) % run.api_keys]
  /\ call' = [call EXCEPT ![t].pc = "post"]
  /\ UNCHANGED <<fs, _emotion_predictor, _sentiment_predictor, constructions,
                 load_failed, ldr, classifier, loads>>

\* requests.post with the key: status 200 returns the content, any other
\* status and any exception go on to the next attempt
Post(t, ok) ==
  /\ call[t].pc = "post"
  /\ call' =
       IF ok
         THEN [call EXCEPT ![t].pc = "done", ![t].ret = "content",
                           ![t].tried = Append(@, [key |-> call[t].key, ok |-> TRUE])]
         ELSE [call EXCEPT ![t].pc = "loop", ![t].attempt = @ + 1,
                           ![t].tried = Append(@, [key |-> call[t].key, ok |-> FALSE])]
  /\ UNCHANGED <<fs, _emotion_predictor, _sentiment_predictor, constructions,
                 load_failed, run, ldr, classifier, loads>>

\* The process after import of utils.ai_service and any number of earlier
\* requests: some keys are configured and the index is anywhere in range.
InitKeys ==
  /\ run \in {AiService(n, i) : n \in 1..MaxKeys, i \in 0..(MaxKeys - 1)}
  /\ run.current_key_index < run.api_keys
  /\ call = [t \in Threads |-> NoRequest]
  /\ fs = [d \in Dirs |-> NoDir]
  /\ _emotion_predictor = NoEngine
  /\ _sentiment_predictor = NoEngine
  /\ constructions = [emotion |-> 0, sentiment |-> 0]
  /\ load_failed = {}
  /\ ldr = NoLoader
  /\ classifier = NoClassifier
  /\ loads = 0

NextKeys ==
  \E t \in Threads :
    \/ RequestBegin(t)
    \/ LoopTest(t)
    \/ KeyRead(t)
    \/ IndexLoad(t)
    \/ IndexStore(t)
    \/ \E ok \in BOOLEAN : Post(t, ok)

SpecKeys == InitKeys /\ [][NextKeys]_vars

\* C30: in _make_request every configured key is tried at most once per
\* request, None is returned only after every configured key has been
\* tried and has failed, also when several requests use the global
\* ai_service at the same time, and current_key_index stays within
\* [0, len(api_keys))
C30_EachKeyOncePerRequest ==
  /\ \A t \in Threads :
       /\ \A i, j \in 1..Len(call[t].tried) :
            call[t].tried[i].key = call[t].tried[j].key => i = j
       /\ call[t].ret = "None" =>
            \A k \in 0..(run.api_keys - 1) :
              \E i \in 1..Len(call[t].tried) :
                call[t].tried[i].key = k /\ ~call[t].tried[i].ok
  /\ run.current_key_index \in 0..(run.api_keys - 1)

\* ------------------------------------------------ backend: chat sessions

MaxSessions == 2

MaxProfessionals == 2

\* the escalation tickets created, at most
MaxTickets == 3

\* the messages of one session, at most
MaxMessages == 4

\* the messages a user sends
ChatContents ==
  { <<"h", "e", "l", "l", "o">>,
    <<"I", " ", "w", "a", "n", "t", " ", "t", "o", " ", "D", "I", "E">>,
    <<"s", "o", " ", "s", "a", "d">>,
    <<"e", "n", "d", " ", "i", "t", " ", "a", "l", "l">> }

dangerous_keywords ==
  { <<"k", "i", "l", "l", " ", "m", "y", "s", "e", "l", "f">>,
    <<"s", "u", "i", "c", "i", "d", "e">>,
    <<"e", "n", "d", " ", "i", "t">>,
    <<"n", "o", "t", " ", "w", "o", "r", "t", "h", " ", "l", "i", "v", "i", "n", "g">>,
    <<"h", "u", "r", "t", " ", "m", "y", "s", "e", "l", "f">>,
    <<"c", "u", "t", " ", "m", "y", "s", "e", "l", "f">>,
    <<"d", "i", "e">>,
    <<"w", "a", "n", "t", " ", "t", "o", " ", "d", "i", "e">> }

\* _make_request run by one request alone: the keys in working answer
\* with status 200, the others fail
RECURSIVE make_request(_, _, _)
make_request(svc, working, attempt) ==
  IF attempt >= svc.api_keys THEN [ret |-> "None", svc |-> svc]
  ELSE LET api_key == svc.current_key_index
           next == [svc EXCEPT !.current_key_index = (@ + 1) % svc.api_keys]
       IN IF api_key \in working
            THEN [ret |-> "content", svc |-> next]
            ELSE make_request(next, working, attempt + 1)

\* generate_bot_response: the kind of reply, the escalate flag, and the
\* ai_service afterwards.  ai_raises: the AI branch ends in an exception.
generate_bot_response(message_text, has_recent_risk, svc, working, ai_raises) ==
  LET message_lower == LowerStr(message_text)
      dangerous_level == \E k \in dangerous_keywords : Contains(message_lower, k)
      r == make_request(svc, working, 0)
  IN IF dangerous_level
       THEN [content |-> "crisis", escalate |-> TRUE,
             dangerous_level |-> dangerous_level, svc |-> svc]
     ELSE IF ai_raises
       THEN [content |-> IF has_recent_risk THEN "rule-based, recent risk"
                                            ELSE "rule-based",
             escalate |-> FALSE, dangerous_level |-> dangerous_level, svc |-> svc]
     ELSE [content |-> IF r.ret = "None" THEN "ai fallback" ELSE "ai",
           escalate |-> FALSE, dangerous_level |-> dangerous_level, svc |-> r.svc]

\* the number of pending tickets assigned to professional p
PendingCount(tickets, p) ==
  Cardinality({i \in 1..Len(tickets) :
                 tickets[i].assigned_professional = p /\ tickets[i].status = "pending"})

\* assign_professional: 0 for None
assign_professional(db) ==
  LET professionals == {p \in DOMAIN db.Professional : db.Professional[p].verified}
  IN IF professionals = {} THEN 0
     ELSE CHOOSE p \in professionals :
            \A q \in professionals :
              \/ PendingCount(db.EscalationTicket, p) < PendingCount(db.EscalationTicket, q)
              \/ /\ PendingCount(db.EscalationTicket, p) = PendingCount(db.EscalationTicket, q)
                 /\ p <= q

\* create_escalation_ticket(session, reason): the ticket's id (0 for None)
\* and the database afterwards
create_escalation_ticket(db, session) ==
  LET professional == assign_professional(db)
  IN IF professional = 0 THEN [ticket |-> 0, db |-> db]
     ELSE [ticket |-> Len(db.EscalationTicket) + 1,
           db |-> [db EXCEPT
                     !.EscalationTicket =
                        Append(@, [session |-> session,
                                   assigned_professional |-> professional,
                                   status |-> "pending"]),
                     !.ChatSession[session].status = "escalated"]]

\* ChatSessionListCreateView.create: the user's open session, or a new one
create_session ==
  LET open == {s \in 1..Len(fs.ChatSession) : fs.ChatSession[s].status = "open"}
  IN /\ IF open # {}
          THEN /\ call' = [op |-> "create_session", http |-> 200]
               /\ fs' = fs
          ELSE /\ call' = [op |-> "create_session", http |-> 201]
               /\ fs' = [fs EXCEPT !.ChatSession =
                                      Append(@, [status |-> "open", messages |-> 0])]
     /\ UNCHANGED <<_emotion_predictor, _sentiment_predictor, constructions,
                    load_failed, run, ldr, classifier, loads>>

\* send_message(request, session_id)
send_message(session_id, content, has_recent_risk, working, ai_raises) ==
  LET bot == generate_bot_response(content, has_recent_risk, run, working, ai_raises)
      saved == [fs EXCEPT !.ChatSession[session_id].messages = @ + 2]
      esc == create_escalation_ticket(saved, session_id)
  IN IF session_id > Len(fs.ChatSession)
       THEN /\ call' = [op |-> "send_message", http |-> 404, session_id |-> session_id,
                        escalated |-> FALSE, escalation_ticket_id |-> 0,
                        bot_message |-> "none"]
            /\ UNCHANGED <<fs, run>>
     ELSE IF fs.ChatSession[session_id].status = "closed"
       THEN /\ call' = [op |-> "send_message", http |-> 400, session_id |-> session_id,
                        escalated |-> FALSE, escalation_ticket_id |-> 0,
                        bot_message |-> "none"]
            /\ UNCHANGED <<fs, run>>
     ELSE /\ fs.ChatSession[session_id].messages + 2 <= MaxMessages
          /\ Len(fs.EscalationTicket) < MaxTickets
          /\ run' = bot.svc
          /\ fs' = IF bot.escalate THEN esc.db ELSE saved
          /\ call' = [op |-> "send_message", http |-> 200, session_id |-> session_id,
                      escalated |-> bot.escalate,
                      escalation_ticket_id |-> IF bot.escalate THEN esc.ticket ELSE 0,
                      bot_message |-> bot.content]

\* professional_escalation_verdict(request, ticket_id) by professional p
professional_escalation_verdict(p, ticket_id) ==
  /\ IF ~fs.Professional[p].verified
       THEN /\ call' = [op |-> "professional_escalation_verdict", http |-> 403]
            /\ fs' = fs
     ELSE IF \/ ticket_id > Len(fs.EscalationTicket)
             \/ fs.EscalationTicket[ticket_id].assigned_professional # p
             \/ fs.EscalationTicket[ticket_id].status # "pending"
       THEN /\ call' = [op |-> "professional_escalation_verdict", http |-> 404]
            /\ fs' = fs
     ELSE /\ call' = [op |-> "professional_escalation_verdict", http |-> 200]
          /\ fs' = [fs EXCEPT !.EscalationTicket[ticket_id].status = "reviewed"]
  /\ UNCHANGED <<_emotion_predictor, _sentiment_predictor, constructions,
                 load_failed, run, ldr, classifier, loads>>

\* The chat backend of one user: no session yet, professionals verified or
\* not, and the ai_service with up to two keys.
InitChat ==
  /\ fs \in {[ChatSession |-> <<>>, EscalationTicket |-> <<>>,
              Professional |-> [p \in 1..MaxProfessionals |-> [verified |-> v[p]]]] :
               v \in [1..MaxProfessionals -> BOOLEAN]}
  /\ run \in {AiService(n, 0) : n \in 0..2}
  /\ call = NoCall
  /\ _emotion_predictor = NoEngine
  /\ _sentiment_predictor = NoEngine
  /\ constructions = [emotion |-> 0, sentiment |-> 0]
  /\ load_failed = {}
  /\ ldr = NoLoader
  /\ classifier = NoClassifier
  /\ loads = 0

NextChat ==
  \/ /\ Len(fs.ChatSession) < MaxSessions
     /\ create_session
  \/ \E session_id \in 1..MaxSessions, content \in ChatContents,
        has_recent_risk \in BOOLEAN, working \in SUBSET (0..1), ai_raises \in BOOLEAN :
       /\ send_message(session_id, content, has_recent_risk, working, ai_raises)
       /\ UNCHANGED <<_emotion_predictor, _sentiment_predictor, constructions,
                      load_failed, ldr, classifier, loads>>
  \/ \E p \in 1..MaxProfessionals, ticket_id \in 1..MaxTickets :
       professional_escalation_verdict(p, ticket_id)

SpecChat == InitChat /\ [][NextChat]_vars

\* C29: whenever send_message reports escalated = true, a pending
\* EscalationTicket exists for the session, assigned to a verified
\* professional, and the session's status is 'escalated'; and a session's
\* status is 'escalated' only if a ticket was created for it
C29_EscalatedHasTicket ==
  /\ (call.op = "send_message" /\ call.http = 200 /\ call.escalated) =>
       /\ \E i \in 1..Len(fs.EscalationTicket) :
            /\ fs.EscalationTicket[i].session = call.session_id
            /\ fs.EscalationTicket[i].status = "pending"
            /\ fs.Professional[fs.EscalationTicket[i].assigned_professional].verified
       /\ fs.ChatSession[call.session_id].status = "escalated"
  /\ \A s \in 1..Len(fs.ChatSession) :
       fs.ChatSession[s].status = "escalated" =>
         \E i \in 1..Len(fs.EscalationTicket) : fs.EscalationTicket[i].session = s

=============================================================================
